---- MODULE Spec2Model ----
(***************************************************************************)
(* KAMIS price-feed ingestion (backend/src/services/kamisService.ts) with  *)
(* its callers (the cron job and the admin upload / trigger endpoints) and *)
(* the PostgreSQL tables it writes through Prisma.                         *)
(*                                                                         *)
(* Strings are sequences of character codes, so that toLowerCase,          *)
(* toUpperCase, trim, replace and parseFloat are computed, not assumed.    *)
(* Timestamps are whole hours since 1970-01-01T00:00Z; a DATE column holds *)
(* a day number (days since 1970-01-01).                                   *)
(***************************************************************************)
EXTENDS Integers, Sequences, FiniteSets, TLC

(***************************************************************************)
(* Strings                                                                 *)
(***************************************************************************)
\* The value of a missing key (JavaScript undefined); no string contains code 0.
Undefined == <<0>>

\* String(undefined) is the text "undefined".
StrUndefined == <<117, 110, 100, 101, 102, 105, 110, 101, 100>>

\* ECMAScript white space that occurs in feeds: TAB, LF, VT, FF, CR, SPACE.
IsSpace(c) == c \in {9, 10, 11, 12, 13, 32}

IsDigit(c) == c \in 48..57

toLowerCase(s) == [i \in DOMAIN s |-> IF s[i] \in 65..90 THEN s[i] + 32 ELSE s[i]]

toUpperCase(s) == [i \in DOMAIN s |-> IF s[i] \in 97..122 THEN s[i] - 32 ELSE s[i]]

RECURSIVE TrimStart(_)
TrimStart(s) == IF s # <<>> /\ IsSpace(Head(s)) THEN TrimStart(Tail(s)) ELSE s

RECURSIVE TrimEnd(_)
TrimEnd(s) ==
  IF s # <<>> /\ IsSpace(s[Len(s)]) THEN TrimEnd(SubSeq(s, 1, Len(s) - 1)) ELSE s

trim(s) == TrimEnd(TrimStart(s))

\* s.replace(/\s/g, '_')
ReplaceSpaces(s) == [i \in DOMAIN s |-> IF IsSpace(s[i]) THEN 95 ELSE s[i]]

\* s.replace(/,/g, '')
RECURSIVE RemoveCommas(_)
RemoveCommas(s) ==
  IF s = <<>> THEN <<>>
  ELSE IF Head(s) = 44 THEN RemoveCommas(Tail(s))
  ELSE <<Head(s)>> \o RemoveCommas(Tail(s))

\* String(v)
String(v) == IF v = Undefined THEN StrUndefined ELSE v

\* Truthiness of a cell in `a || b`: undefined and "" are falsy.
Truthy(v) == v # Undefined /\ v # <<>>

(***************************************************************************)
(* parseFloat.  The result is a record: nan, or a value in hundredths.     *)
(* The feeds modelled carry at most two decimals and no exponent, so the   *)
(* value is exact.  A prefix is parsed, as parseFloat does: "12abc" is 12. *)
(***************************************************************************)
NaN == [nan |-> TRUE, v |-> 0]

Num(v) == [nan |-> FALSE, v |-> v]

\* Number of consecutive decimal digits of s from position i on.
RECURSIVE DigitsLen(_, _)
DigitsLen(s, i) ==
  IF i <= Len(s) /\ IsDigit(s[i]) THEN 1 + DigitsLen(s, i + 1) ELSE 0

\* Value of the n digits of s that start at position i.
RECURSIVE DigitsVal(_, _, _)
DigitsVal(s, i, n) ==
  IF n = 0 THEN 0 ELSE DigitsVal(s, i, n - 1) * 10 + (s[i + n - 1] - 48)

parseFloat(s) ==
  LET t == TrimStart(s)
      signed == t # <<>> /\ t[1] \in {43, 45}
      neg == t # <<>> /\ t[1] = 45
      st == IF signed THEN 2 ELSE 1
      n == DigitsLen(t, st)
      hasDot == st + n <= Len(t) /\ t[st + n] = 46
      m == IF hasDot THEN DigitsLen(t, st + n + 1) ELSE 0
      whole == DigitsVal(t, st, n)
      frac == IF m = 0 THEN 0
              ELSE IF m = 1 THEN DigitsVal(t, st + n + 1, 1) * 10
              ELSE DigitsVal(t, st + n + 1, 2)
      mag == whole * 100 + frac
  IN IF n + m = 0 THEN NaN ELSE Num(IF neg THEN 0 - mag ELSE mag)

isNaN(x) == x.nan

(***************************************************************************)
(* Dates                                                                   *)
(***************************************************************************)
\* Days since 1970-01-01 of the civil date y-m-d (proleptic Gregorian).
DaysFromCivil(y, m, d) ==
  LET yy == IF m <= 2 THEN y - 1 ELSE y
      era == yy \div 400
      yoe == yy - era * 400
      mp == IF m > 2 THEN m - 3 ELSE m + 9
      doy == (153 * mp + 2) \div 5 + d - 1
      doe == yoe * 365 + yoe \div 4 - yoe \div 100 + doy
  IN era * 146097 + doe - 719468

HoursPerDay == 24

InvalidDate == -1

\* new Date(text) for a date-only ISO string "YYYY-MM-DD": midnight UTC of
\* that day; any other text is an Invalid Date.
DateParse(s) ==
  IF /\ Len(s) = 10
     /\ s[5] = 45 /\ s[8] = 45
     /\ \A i \in {1, 2, 3, 4, 6, 7, 9, 10} : IsDigit(s[i])
  THEN LET y == DigitsVal(s, 1, 4)
           m == DigitsVal(s, 6, 2)
           d == DigitsVal(s, 9, 2)
       IN IF m \in 1..12 /\ d \in 1..31
          THEN DaysFromCivil(y, m, d) * HoursPerDay
          ELSE InvalidDate
  ELSE InvalidDate

\* The calendar day a timestamp is stored as in a DATE column (UTC date).
DateOf(ts) == ts \div HoursPerDay

(***************************************************************************)
(* Field extraction (processKamisFile, the head of the row loop).  A raw   *)
(* row is the sequence of <<header, cell>> pairs of one parsed line.       *)
(***************************************************************************)
kCrop == <<99, 114, 111, 112>>
kCropName == <<99, 114, 111, 112, 95, 110, 97, 109, 101>>
kCommodity == <<99, 111, 109, 109, 111, 100, 105, 116, 121>>
kCropNameSp == <<99, 114, 111, 112, 32, 110, 97, 109, 101>>
kProductName == <<112, 114, 111, 100, 117, 99, 116, 110, 97, 109, 101>>
kRegion == <<114, 101, 103, 105, 111, 110>>
kRegionName == <<114, 101, 103, 105, 111, 110, 95, 110, 97, 109, 101>>
kCounty == <<99, 111, 117, 110, 116, 121>>
kDistrict == <<100, 105, 115, 116, 114, 105, 99, 116>>
kMarket == <<109, 97, 114, 107, 101, 116>>
kMarketName == <<109, 97, 114, 107, 101, 116, 95, 110, 97, 109, 101>>
kMarketNameSp == <<109, 97, 114, 107, 101, 116, 32, 110, 97, 109, 101>>
kPrice == <<112, 114, 105, 99, 101>>
kUnitPrice == <<117, 110, 105, 116, 32, 112, 114, 105, 99, 101>>
kWholesale == <<119, 104, 111, 108, 101, 115, 97, 108, 101>>
kRetail == <<114, 101, 116, 97, 105, 108>>
kEntryDate == <<101, 110, 116, 114, 121, 95, 100, 97, 116, 101>>
kDate == <<100, 97, 116, 101>>

\* row[k] after `row[k.toLowerCase().trim()] = rawRow[k]` for every header:
\* the cell of the last header that normalises to k, undefined if none does.
Get(rawRow, k) ==
  LET hits == {j \in DOMAIN rawRow : trim(toLowerCase(rawRow[j][1])) = k}
  IN IF hits = {} THEN Undefined
     ELSE rawRow[CHOOSE j \in hits : \A h \in hits : h <= j][2]

\* row[k1] || row[k2] || ... || dflt
RECURSIVE FirstTruthy(_, _, _)
FirstTruthy(rawRow, keys, dflt) ==
  IF keys = <<>> THEN dflt
  ELSE IF Truthy(Get(rawRow, Head(keys))) THEN Get(rawRow, Head(keys))
  ELSE FirstTruthy(rawRow, Tail(keys), dflt)

\* row[k1] ?? row[k2] ?? ...
RECURSIVE FirstDefined(_, _)
FirstDefined(rawRow, keys) ==
  IF keys = <<>> THEN Undefined
  ELSE IF Get(rawRow, Head(keys)) # Undefined THEN Get(rawRow, Head(keys))
  ELSE FirstDefined(rawRow, Tail(keys))

cropName(rawRow) ==
  trim(FirstTruthy(rawRow,
       <<kCrop, kCropName, kCommodity, kCropNameSp, kProductName>>, <<>>))

regionName(rawRow) ==
  trim(FirstTruthy(rawRow, <<kRegion, kRegionName, kCounty, kDistrict>>, <<>>))

marketName(rawRow) ==
  trim(FirstTruthy(rawRow, <<kMarket, kMarketName, kMarketNameSp>>, <<>>))

priceVal(rawRow) ==
  parseFloat(RemoveCommas(String(
    FirstDefined(rawRow, <<kPrice, kUnitPrice, kWholesale, kRetail>>))))

\* new Date(row.entry_date || row.date || row['date'] || new Date())
entryDate(rawRow, clock) ==
  LET dateRaw == FirstTruthy(rawRow, <<kEntryDate, kDate, kDate>>, Undefined)
  IN IF dateRaw = Undefined THEN clock ELSE DateParse(dateRaw)

\* The guard of `if (!cropName || !regionName || isNaN(priceVal))`.
RowRejected(rawRow) ==
  cropName(rawRow) = <<>> \/ regionName(rawRow) = <<>> \/ isNaN(priceVal(rawRow))

(***************************************************************************)
(* categorizeCrop and determineUnit.  A keyword is a sequence of character *)
(* codes; OptSpace stands for the regular expression `\s?`.                *)
(***************************************************************************)
OptSpace == -1

\* Does keyword kw match text at position i (a regular-expression match
\* anchored at i)?
RECURSIVE MatchAt(_, _, _)
MatchAt(text, i, kw) ==
  IF kw = <<>> THEN TRUE
  ELSE IF Head(kw) = OptSpace
    THEN \/ MatchAt(text, i, Tail(kw))
         \/ i <= Len(text) /\ IsSpace(text[i]) /\ MatchAt(text, i + 1, Tail(kw))
  ELSE i <= Len(text) /\ text[i] = Head(kw) /\ MatchAt(text, i + 1, Tail(kw))

\* text.match(/k1|k2|.../) is not null
Matches(text, keywords) ==
  \E j \in DOMAIN keywords : \E i \in 1..(Len(text) + 1) : MatchAt(text, i, keywords[j])

\* kamisService.ts line 26
kw_farm_inputs ==
  <<
    <<102, 101, 114, 116, 105, 108, 105, 122, 101, 114>>
  >>

\* kamisService.ts line 27
kw_animal_feeds ==
  <<
    <<115, 117, 110, 102, 108, 111, 119, 101, 114, 32, 99, 97, 107, 101>>,
    <<99, 111, 116, 116, 111, 110, 32, 115, 101, 101, 100, 32, 99, 97, 107, 101>>,
    <<98, 114, 97, 110>>, <<112, 111, 108, 108, 97, 114, 100>>
  >>

\* kamisService.ts line 28
kw_processed_products ==
  <<
    <<111, 105, 108>>, <<99, 111, 111, 107, 105, 110, 103, 32, 102, 97, 116>>
  >>

\* kamisService.ts line 29
kw_cash_crops ==
  <<
    <<116, 101, 97>>, <<99, 111, 102, 102, 101, 101>>, <<99, 111, 116, 116, 111, 110>>,
    <<109, 97, 99, 97, 100, 97, 109, 105, 97>>, <<99, 97, 115, 104, 101, 119>>,
    <<107, 111, 114, 111, 115, 104, 111>>, <<115, 105, 115, 97, 108>>,
    <<112, 121, 114, 101, 116, 104, 114, 117, 109>>,
    <<115, 117, 110, 102, 108, 111, 119, 101, 114>>
  >>

\* kamisService.ts line 30
kw_livestock ==
  <<
    <<100, 111, 110, 107, 101, 121>>, <<99, 97, 116, 116, 108, 101>>, <<99, 111, 119>>,
    <<98, 117, 108, 108>>, <<103, 111, 97, 116>>, <<115, 104, 101, 101, 112>>,
    <<99, 97, 109, 101, 108>>, <<112, 105, 103>>, <<108, 105, 118, 101, 115, 116, 111, 99, 107>>,
    <<104, 101, 105, 102, 101, 114>>, <<115, 116, 101, 101, 114>>, <<114, 97, 98, 98, 105, 116>>
  >>

\* kamisService.ts line 31
kw_poultry ==
  <<
    <<99, 104, 105, 99, 107, 101, 110>>, <<112, 111, 117, 108, 116, 114, 121>>,
    <<116, 117, 114, 107, 101, 121>>, <<100, 117, 99, 107>>, <<103, 101, 101, 115, 101>>,
    <<104, 101, 110>>
  >>

\* kamisService.ts line 32
kw_fisheries ==
  <<
    <<102, 105, 115, 104>>, <<116, 105, 108, 97, 112, 105, 97>>, <<111, 109, 101, 110, 97>>,
    <<110, 105, 108, 101, 32, 112, 101, 114, 99, 104>>, <<99, 97, 116, 102, 105, 115, 104>>,
    <<109, 117, 100, 102, 105, 115, 104>>,
    <<104, 97, 112, 108, 111, 99, 104, 114, 111, 109, 105, 115>>, <<116, 114, 111, 117, 116>>,
    <<99, 97, 114, 112>>, <<112, 114, 111, 116, 111, 112, 116, 101, 114, 117, 115>>,
    <<98, 97, 115, 115>>, <<108, 97, 98, 101, 111>>, <<109, 111, 114, 109, 121, 114, 117, 115>>,
    <<101, 101, 108>>, <<115, 121, 110, 111, 100, 111, 110, 116, 105, 115>>,
    <<97, 108, 101, 115, 116, 101, 115>>, <<98, 97, 114, 98, 117, 115>>,
    <<115, 110, 97, 112, 112, 101, 114>>, <<100, 101, 109, 101, 114, 115, 97, 108>>,
    <<98, 97, 114, 114, 97, 99, 117, 100, 97>>, <<107, 97, 115, 117, 109, 98, 97>>,
    <<116, 117, 110, 97>>, <<109, 97, 99, 107, 101, 114, 101, 108>>, <<115, 104, 97, 114, 107>>,
    <<115, 97, 114, 100, 105, 110, 101>>, <<108, 111, 98, 115, 116, 101, 114>>,
    <<107, 97, 109, 98, 97>>, <<112, 114, 97, 119, 110>>, <<99, 114, 97, 98>>, <<107, 97, 97>>,
    <<115, 104, 114, 105, 109, 112>>, <<111, 99, 116, 111, 112, 117, 115>>,
    <<112, 119, 101, 122, 97>>, <<115, 113, 117, 105, 100>>, <<110, 103, 105, 115, 105>>,
    <<111, 121, 115, 116, 101, 114>>, <<115, 99, 97, 118, 101, 110, 103, 101, 114>>,
    <<99, 104, 97, 110, 103, 117>>, <<116, 97, 110, 103, 117>>,
    <<103, 114, 111, 117, 112, 101, 114>>, <<103, 114, 117, 110, 116>>,
    <<116, 97, 97, 109, 97, 109, 98, 97>>, <<107, 111, 114, 97>>, <<109, 117, 108, 108, 101, 116>>,
    <<102, 117, 109, 105>>, <<116, 104, 114, 101, 97, 100, 102, 105, 110>>,
    <<98, 114, 101, 97, 109>>, <<106, 97, 99, 107>>, <<116, 114, 101, 118, 97, 108, 108, 121>>,
    <<107, 111, 108, 101, 107, 111, 108, 101>>, <<104, 97, 108, 102, 98, 101, 97, 107>>,
    <<97, 110, 99, 104, 111, 118>>, <<104, 101, 114, 114, 105, 110, 103>>,
    <<109, 97, 114, 108, 105, 110>>, <<112, 101, 108, 97, 103, 105, 99>>,
    <<114, 111, 99, 107, 99, 111, 100, 101>>, <<116, 101, 119, 97>>
  >>

\* kamisService.ts line 33
kw_animal_products ==
  <<
    <<101, 103, 103>>, <<109, 105, 108, 107>>, <<104, 111, 110, 101, 121>>, <<98, 101, 101, 102>>,
    <<109, 117, 116, 116, 111, 110>>, <<112, 111, 114, 107>>, <<109, 101, 97, 116>>
  >>

\* kamisService.ts line 34
kw_cereals ==
  <<
    <<109, 97, 105, 122, 101>>, <<114, 105, 99, 101>>, <<119, 104, 101, 97, 116>>,
    <<115, 111, 114, 103, 104, 117, 109>>, <<109, 105, 108, 108, 101, 116>>,
    <<98, 97, 114, 108, 101, 121>>, <<111, 97, 116>>, <<99, 101, 114, 101, 97, 108>>
  >>

\* kamisService.ts line 35
kw_legumes ==
  <<
    <<98, 101, 97, 110>>, <<112, 101, 97>>, <<103, 114, 97, 109>>, <<99, 111, 119, 112, 101, 97>>,
    <<108, 101, 110, 116, 105, 108>>, <<110, 106, 97, 104, 105>>,
    <<100, 111, 108, 105, 99, 104, 111, 115>>, <<112, 117, 108, 115, 101>>, <<115, 111, 121, 97>>,
    <<103, 114, 111, 117, 110, 100, OptSpace, 110, 117, 116>>, <<112, 101, 97, 110, 117, 116>>,
    <<110, 106, 117, 103, 117, 32, 109, 97, 119, 101>>
  >>

\* kamisService.ts line 36
kw_roots_tubers ==
  <<
    <<112, 111, 116, 97, 116, 111>>, <<99, 97, 115, 115, 97, 118, 97>>, <<121, 97, 109>>,
    <<97, 114, 114, 111, 119, 32, 114, 111, 111, 116>>,
    <<115, 119, 101, 101, 116, 32, 112, 111, 116, 97, 116, 111>>,
    <<99, 111, 99, 111, 121, 97, 109>>, <<116, 117, 98, 101, 114>>
  >>

\* kamisService.ts line 37
kw_fruits ==
  <<
    <<98, 97, 110, 97, 110, 97>>, <<109, 97, 110, 103, 111>>, <<111, 114, 97, 110, 103, 101>>,
    <<112, 105, 110, 101, 97, 112, 112, 108, 101>>, <<112, 97, 119, 112, 97, 119>>,
    <<119, 97, 116, 101, 114, 109, 101, 108, 111, 110>>, <<97, 118, 111, 99, 97, 100, 111>>,
    <<112, 97, 115, 115, 105, 111, 110>>, <<108, 101, 109, 111, 110>>, <<108, 105, 109, 101>>,
    <<116, 97, 110, 103, 101, 114, 105, 110, 101>>, <<103, 117, 97, 118, 97>>,
    <<106, 97, 99, 107, 102, 114, 117, 105, 116>>, <<98, 101, 114, 114, 121>>,
    <<98, 101, 114, 114, 105, 101, 115>>, <<109, 101, 108, 111, 110>>, <<103, 114, 97, 112, 101>>,
    <<97, 112, 112, 108, 101>>, <<100, 114, 97, 103, 111, 110, OptSpace, 102, 114, 117, 105, 116>>,
    <<99, 111, 99, 111, 110, 117, 116>>
  >>

\* kamisService.ts line 38
kw_vegetables ==
  <<
    <<116, 111, 109, 97, 116, 111>>, <<107, 97, 108, 101, 115>>, <<115, 117, 107, 117, 109, 97>>,
    <<99, 97, 98, 98, 97, 103, 101>>, <<111, 110, 105, 111, 110>>,
    <<115, 112, 105, 110, 97, 99, 104>>, <<99, 97, 114, 114, 111, 116>>,
    <<112, 101, 112, 112, 101, 114>>, <<99, 104, 105, 108, 108, 105>>,
    <<98, 114, 105, 110, 106, 97, 108>>, <<108, 101, 116, 116, 117, 99, 101>>,
    <<109, 97, 110, 97, 103, 117>>, <<116, 101, 114, 101, 114, 101>>,
    <<118, 101, 103, 101, 116, 97, 98, 108, 101>>, <<98, 114, 111, 99, 99, 111, 108, 105>>,
    <<99, 97, 117, 108, 105, 102, 108, 111, 119, 101, 114>>,
    <<99, 117, 99, 117, 109, 98, 101, 114>>, <<107, 117, 110, 100, 97>>,
    <<109, 114, 101, 110, 100, 97>>,
    <<115, 112, 105, 100, 101, 114, OptSpace, 102, 108, 111, 119, 101, 114>>, <<115, 97, 103, 97>>,
    <<106, 117, 116, 101>>, <<112, 117, 109, 112, 107, 105, 110>>,
    <<98, 117, 116, 116, 101, 114, 110, 117, 116>>, <<99, 97, 112, 115, 105, 99, 117, 109>>,
    <<99, 114, 111, 116, 111, 108, 97, 114, 105, 97>>, <<109, 105, 116, 111>>,
    <<109, 105, 114, 111>>, <<99, 111, 117, 114, 103, 101, 116, 116, 101>>, <<111, 107, 114, 97>>,
    <<103, 117, 109, 98, 111>>,
    <<108, 97, 100, 121, 39, 115, OptSpace, 102, 105, 110, 103, 101, 114>>
  >>

\* kamisService.ts line 39
kw_spices_herbs ==
  <<
    <<103, 105, 110, 103, 101, 114>>, <<103, 97, 114, 108, 105, 99>>,
    <<99, 111, 114, 105, 97, 110, 100, 101, 114>>, <<100, 104, 97, 110, 105, 97>>,
    <<99, 104, 105, 118, 101, 115>>, <<116, 117, 114, 109, 101, 114, 105, 99>>,
    <<112, 101, 112, 112, 101, 114>>, <<99, 104, 105, 108, 105, 101, 115>>
  >>

\* The rules of categorizeCrop in source order.
CategoryRules ==
  <<
    [category |-> "farm_inputs", keywords |-> kw_farm_inputs],
    [category |-> "animal_feeds", keywords |-> kw_animal_feeds],
    [category |-> "processed_products", keywords |-> kw_processed_products],
    [category |-> "cash_crops", keywords |-> kw_cash_crops],
    [category |-> "livestock", keywords |-> kw_livestock],
    [category |-> "poultry", keywords |-> kw_poultry],
    [category |-> "fisheries", keywords |-> kw_fisheries],
    [category |-> "animal_products", keywords |-> kw_animal_products],
    [category |-> "cereals", keywords |-> kw_cereals],
    [category |-> "legumes", keywords |-> kw_legumes],
    [category |-> "roots_tubers", keywords |-> kw_roots_tubers],
    [category |-> "fruits", keywords |-> kw_fruits],
    [category |-> "vegetables", keywords |-> kw_vegetables],
    [category |-> "spices_herbs", keywords |-> kw_spices_herbs]
  >>

\* kamisService.ts line 48
kw_litre ==
  <<
    <<109, 105, 108, 107>>, <<111, 105, 108>>, <<106, 117, 105, 99, 101>>,
    <<104, 111, 110, 101, 121>>, <<121, 111, 103, 104, 117, 114, 116>>
  >>

\* kamisService.ts line 49
kw_tray ==
  <<
    <<101, 103, 103>>
  >>

\* kamisService.ts line 50
kw_piece ==
  <<
    <<116, 105, 109, 98, 101, 114>>, <<112, 111, 115, 116>>, <<112, 111, 108, 101>>,
    <<112, 105, 110, 101, 97, 112, 112, 108, 101>>,
    <<119, 97, 116, 101, 114, 109, 101, 108, 111, 110>>, <<99, 111, 99, 111, 110, 117, 116>>,
    <<112, 117, 109, 112, 107, 105, 110>>, <<98, 117, 116, 116, 101, 114, 110, 117, 116>>,
    <<99, 97, 98, 98, 97, 103, 101>>
  >>

\* A classifier in which the last matching rule wins.
categorizeCrop_lastRule(commodityName) ==
  LET lowerName == toLowerCase(commodityName)
      hits == {r \in DOMAIN CategoryRules : Matches(lowerName, CategoryRules[r].keywords)}
  IN IF hits = {} THEN "general"
     ELSE CategoryRules[CHOOSE r \in hits : \A h \in hits : r >= h].category

categorizeCrop(commodityName) ==
  LET lowerName == toLowerCase(commodityName)
      hits == {r \in DOMAIN CategoryRules : Matches(lowerName, CategoryRules[r].keywords)}
  IN IF hits = {} THEN "general"
     ELSE CategoryRules[CHOOSE r \in hits : \A h \in hits : r <= h].category

\* A unit rule that looks at the keywords before the category.
determineUnit_keywordsFirst(category, commodityName) ==
  LET lowerName == toLowerCase(commodityName)
  IN IF Matches(lowerName, kw_litre) THEN "litre"
     ELSE IF Matches(lowerName, kw_tray) THEN "tray"
     ELSE IF Matches(lowerName, kw_piece) THEN "piece"
     ELSE IF category = "livestock" THEN "head"
     ELSE IF category = "poultry" THEN "bird"
     ELSE "kg"

determineUnit(category, commodityName) ==
  LET lowerName == toLowerCase(commodityName)
  IN IF category = "livestock" THEN "head"
     ELSE IF category = "poultry" THEN "bird"
     ELSE IF Matches(lowerName, kw_litre) THEN "litre"
     ELSE IF Matches(lowerName, kw_tray) THEN "tray"
     ELSE IF Matches(lowerName, kw_piece) THEN "piece"
     ELSE "kg"

(***************************************************************************)
(* Feeds.  The names, prices and dates that occur in the modelled files.   *)
(***************************************************************************)
Maize == <<77, 97, 105, 122, 101>>
MAIZE == <<77, 65, 73, 90, 69>>
Beans == <<66, 101, 97, 110, 115>>
Millet == <<77, 105, 108, 108, 101, 116>>
MILLET == <<77, 73, 76, 76, 69, 84>>
Coast == <<67, 111, 97, 115, 116>>
COAST == <<67, 79, 65, 83, 84>>
CentralKenya == <<67, 101, 110, 116, 114, 97, 108, 32, 75, 101, 110, 121, 97>>
CENTRAL == <<67, 69, 78, 84, 82, 65, 76>>
Kongowea == <<75, 111, 110, 103, 111, 119, 101, 97>>
Blank == <<32>>
P4550 == <<52, 53, 46, 53, 48>>
P4600 == <<52, 54, 46, 48, 48>>
Pabc == <<97, 98, 99>>
P0 == <<48>>
Pneg == <<45, 53>>
P1k == <<49, 44, 50, 48, 48>>
D0110 == <<50, 48, 50, 52, 45, 48, 49, 45, 49, 48>>
Dbad == <<110, 47, 97>>
HCommodity == <<32, 67, 111, 109, 109, 111, 100, 105, 116, 121>>
HCounty == <<67, 79, 85, 78, 84, 89>>
HWholesale == <<87, 104, 111, 108, 101, 115, 97, 108, 101>>

\* One parsed line with the headers crop, region, market, price, date.
Row(c, r, m, p, d) ==
  << <<kCrop, c>>, <<kRegion, r>>, <<kMarket, m>>, <<kPrice, p>>, <<kDate, d>> >>

\* One parsed line under alias headers, without market and date columns.
AliasRow(c, r, p) == << <<HCommodity, c>>, <<HCounty, r>>, <<HWholesale, p>> >>

\* What the caller hands to the engine: no file, undecodable bytes, or rows.
Parsed(rows) == [exists |-> TRUE, decodable |-> TRUE, rows |-> rows]

NoFile == [exists |-> FALSE, decodable |-> FALSE, rows |-> <<>>]

Undecodable == [exists |-> TRUE, decodable |-> FALSE, rows |-> <<>>]

\* The scenario of the specification's section 8.
FileScenario ==
  <<Row(Maize, CentralKenya, <<>>, P4550, D0110), Row(Maize, CentralKenya, <<>>, P4600, D0110)>>

FileCase ==
  <<Row(Maize, Coast, Kongowea, P4550, D0110), Row(MAIZE, COAST, Kongowea, P4600, D0110)>>

FileRejects ==
  <<Row(Blank, Coast, <<>>, P4550, D0110), Row(Maize, <<>>, <<>>, P4550, D0110),
    Row(Maize, Coast, <<>>, Pabc, D0110)>>

FileNonPositive ==
  <<Row(Maize, Coast, <<>>, P0, D0110), Row(Beans, Coast, <<>>, Pneg, D0110)>>

FileNoDate == <<AliasRow(Millet, Coast, P1k)>>

FileBadDate == <<Row(Maize, Coast, <<>>, P4550, Dbad), Row(Maize, Coast, Blank, P4550, D0110)>>

FileMixed ==
  <<Row(Maize, Coast, <<>>, P4550, D0110), Row(Maize, CentralKenya, <<>>, P4550, D0110)>>

\* One market name under two regions.
FileMarkets ==
  <<Row(Maize, Coast, Kongowea, P4550, D0110), Row(Maize, CentralKenya, Kongowea, P4550, D0110)>>

\* A region, Central, whose name is new and whose derived code, CENTRAL, is
\* the code of the seeded Central Kenya.
FileSameCode == <<Row(Maize, SubSeq(CentralKenya, 1, 7), <<>>, P4550, D0110)>>

\* Inputs of sequential runs.
Files ==
  {Parsed(f) : f \in {<<>>, FileScenario, FileCase, FileRejects, FileNonPositive,
                       FileNoDate, FileBadDate, FileMixed, FileMarkets,
                       FileSameCode}}
    \cup {NoFile, Undecodable}

\* Inputs of racing runs: single rows that meet in a crop, a region, a market
\* or a price entry.
RaceFiles ==
  {Parsed(f) : f \in {<<Row(Millet, Coast, <<>>, P4550, D0110)>>,
                       <<Row(MILLET, COAST, Kongowea, P4600, D0110)>>,
                       <<Row(Maize, Coast, <<>>, P4550, D0110)>>}}
    \cup {NoFile, Undecodable}

\* Crop names, file by file, that between them meet every rule of
\* categorizeCrop and determineUnit, several rules at once for some:
\* Fertilizer, Sunflower Cake, Cooking Oil, Coffee Beans; Goat Milk, Free
\* range chicken, Chicken Eggs, Tilapia Fish; Milk and Eggs, Eggs, White
\* Maize, Green Gram; Sweet Potato, Pineapple Juice, Watermelon, Cabbage;
\* Pepper, Ginger, Widget XJ-9.
NameFeed ==
  {
    <<<<70, 101, 114, 116, 105, 108, 105, 122, 101, 114>>,
      <<83, 117, 110, 102, 108, 111, 119, 101, 114, 32, 67, 97, 107, 101>>,
      <<67, 111, 111, 107, 105, 110, 103, 32, 79, 105, 108>>,
      <<67, 111, 102, 102, 101, 101, 32, 66, 101, 97, 110, 115>>>>,
    <<<<71, 111, 97, 116, 32, 77, 105, 108, 107>>,
      <<70, 114, 101, 101, 32, 114, 97, 110, 103, 101, 32, 99, 104, 105, 99, 107, 101, 110>>,
      <<67, 104, 105, 99, 107, 101, 110, 32, 69, 103, 103, 115>>,
      <<84, 105, 108, 97, 112, 105, 97, 32, 70, 105, 115, 104>>>>,
    <<<<77, 105, 108, 107, 32, 97, 110, 100, 32, 69, 103, 103, 115>>,
      <<69, 103, 103, 115>>,
      <<87, 104, 105, 116, 101, 32, 77, 97, 105, 122, 101>>,
      <<71, 114, 101, 101, 110, 32, 71, 114, 97, 109>>>>,
    <<<<83, 119, 101, 101, 116, 32, 80, 111, 116, 97, 116, 111>>,
      <<80, 105, 110, 101, 97, 112, 112, 108, 101, 32, 74, 117, 105, 99, 101>>,
      <<87, 97, 116, 101, 114, 109, 101, 108, 111, 110>>,
      <<67, 97, 98, 98, 97, 103, 101>>>>,
    <<<<80, 101, 112, 112, 101, 114>>,
      <<71, 105, 110, 103, 101, 114>>,
      <<87, 105, 100, 103, 101, 116, 32, 88, 74, 45, 57>>>>
  }

\* One file per group of names: a valid row for each crop.
NameFiles ==
  {Parsed([i \in DOMAIN f |-> Row(f[i], Coast, Kongowea, P4550, D0110)]) : f \in NameFeed}

(***************************************************************************)
(* State                                                                   *)
(***************************************************************************)
\* The callers: the cron job (startCronJobs) and an admin's HTTP request.
Procs == {"cron", "admin"}

\* Invocations of the engine in one behaviour.
MaxBatches == 2

\* Advances of the wall clock in one behaviour.
MaxTicks == 1

\* One advance of the wall clock, in hours.
TickHours == 18

\* 2024-01-10T10:00Z
StartTime == DaysFromCivil(2024, 1, 10) * HoursPerDay + 10

\* How many manual price entries are made.
MaxManual == 1

\* regions.code is VARCHAR(10).
RegionCodeMax == 10

\* SQL NULL in an id column, and in a text column.
NullId == 0

Null == "null"

VARIABLES
  crops,            \* committed rows of table crops (run: the invocation
                    \* that created the row, 0 for a seeded one)
  regions,          \* committed rows of table regions
  markets,          \* committed rows of table markets
  price_entries,    \* committed rows of table price_entries
  kamis_sync_logs,  \* table kamis_sync_logs, a row's id being its index
  tx,               \* per caller: its open transaction and uncommitted rows
  proc,             \* per caller: position and locals of its invocation
  rowLog,           \* per caller: the outcome of each row of its batch so far
  now,              \* the wall clock
  ticks,            \* advances of the clock so far
  started,          \* invocations so far
  seeded,           \* has seedDatabase run?
  hist              \* history: what earlier calls did, for the properties

vars ==
  <<crops, regions, markets, price_entries, kamis_sync_logs, tx, proc, rowLog,
    now, ticks, started, seeded, hist>>

store == <<crops, regions, markets, price_entries>>

NoTx == [state |-> "none", crops |-> {}, regions |-> {}, markets |-> {}, price_entries |-> {}]

NoResult == [inserted |-> -1, skipped |-> -1, errors |-> -1, total_rows |-> -1]

Idle ==
  [pc |-> "idle", kind |-> "none", rows |-> <<>>, i |-> 1,
   insertedCount |-> 0, skippedCount |-> 0, errorCount |-> 0,
   cropId |-> NullId, regionId |-> NullId, marketId |-> NullId, entryDate |-> 0,
   syncId |-> NullId, error |-> Null, outcome |-> "none", result |-> NoResult,
   run |-> 0]

\* History.  last: the call of processKamisFile that returned last, if no
\* call began since and no other caller was inside one meanwhile.  by[p],
\* of p's invocation: did it run with no other caller inside one; did it
\* follow directly, on the same day, a call that returned on the same rows
\* (again), with what inserted and errors counts; the number of price
\* entries and the day when it began, whether the store was empty then, and
\* whether it returned on the day it began.
NoLast == [valid |-> FALSE, rows |-> <<>>, inserted |-> 0, errors |-> 0, day |-> 0]

NoHist ==
  [alone |-> FALSE, again |-> FALSE, priorInserted |-> 0, priorErrors |-> 0,
   n0 |-> 0, empty0 |-> FALSE, day0 |-> 0, sameDay |-> FALSE]

Init ==
  /\ crops = {} /\ regions = {} /\ markets = {} /\ price_entries = {}
  /\ kamis_sync_logs = <<>>
  /\ tx = [p \in Procs |-> NoTx]
  /\ proc = [p \in Procs |-> Idle]
  /\ rowLog = [p \in Procs |-> <<>>]
  /\ now = StartTime
  /\ ticks = 0
  /\ started = 0
  /\ seeded = FALSE
  /\ hist = [last |-> NoLast, by |-> [p \in Procs |-> NoHist]]

\* The rows a statement of p's transaction sees: READ COMMITTED, plus p's own.
VisCrops(p) == crops \cup tx[p].crops

VisRegions(p) == regions \cup tx[p].regions

VisMarkets(p) == markets \cup tx[p].markets

VisEntries(p) == price_entries \cup tx[p].price_entries

\* A fresh id (a UUID), given the rows that exist, committed or not.
NewId(rows) ==
  LET used == {r.id : r \in rows}
  IN CHOOSE n \in 1..(Cardinality(used) + 1) : n \notin used

AllCrops == crops \cup UNION {tx[q].crops : q \in Procs}

AllRegions == regions \cup UNION {tx[q].regions : q \in Procs}

AllMarkets == markets \cup UNION {tx[q].markets : q \in Procs}

AllEntries == price_entries \cup UNION {tx[q].price_entries : q \in Procs}

\* new Date(d).setHours(0, 0, 0, 0) and setHours(23, 59, 59, 999), the server
\* running in UTC.
startOfDay(ts) == (ts \div HoursPerDay) * HoursPerDay

endOfDay(ts) == startOfDay(ts) + (HoursPerDay - 1)

(***************************************************************************)
(* Callers' environment                                                    *)
(***************************************************************************)
\* seedDatabase: upserts the reference rows of database/seed.ts (of its 7
\* regions, 20 crops and 16 markets, the ones the modelled feeds name).
Seed ==
  /\ ~seeded /\ started = 0
  /\ seeded' = TRUE
  /\ regions' = regions \cup
       {[id |-> 1, name |-> CentralKenya, code |-> CENTRAL, is_active |-> TRUE, run |-> 0],
        [id |-> 2, name |-> Coast, code |-> COAST, is_active |-> TRUE, run |-> 0]}
  /\ crops' = crops \cup
       {[id |-> 1, name |-> Maize, category |-> "cereals", unit |-> "kg", is_active |-> TRUE,
         run |-> 0],
        [id |-> 2, name |-> Beans, category |-> "legumes", unit |-> "kg", is_active |-> TRUE,
         run |-> 0]}
  /\ UNCHANGED <<markets, price_entries, kamis_sync_logs, tx, proc, rowLog, now, ticks, started, hist>>

\* Time passes.
Tick ==
  /\ ticks < MaxTicks
  /\ ticks' = ticks + 1
  /\ now' = now + TickHours
  /\ UNCHANGED <<store, kamis_sync_logs, tx, proc, rowLog, started, seeded, hist>>

(***************************************************************************)
(* Sync run log                                                            *)
(***************************************************************************)
\* startSyncLog: the row that kamis_sync_logs.create adds.
startSyncLog ==
  [status |-> "running", started_at |-> now, completed_at |-> 0,
   records_processed |-> 0, records_inserted |-> 0, records_updated |-> 0,
   error_message |-> Null, run |-> started + 1]

\* An update that leaves error_message out.
updateSyncLog_noMessage(id, processed, inserted, updated, status, errorMessage) ==
  [kamis_sync_logs EXCEPT ![id] =
     [@ EXCEPT !.records_processed = processed,
               !.records_inserted = inserted,
               !.records_updated = updated,
               !.status = status,
               !.completed_at = now]]

\* An update that writes the latest row of the log, not the row `id`.
updateSyncLog_latest(id, processed, inserted, updated, status, errorMessage) ==
  [kamis_sync_logs EXCEPT ![Len(kamis_sync_logs)] =
     [@ EXCEPT !.records_processed = processed,
               !.records_inserted = inserted,
               !.records_updated = updated,
               !.status = status,
               !.error_message = IF errorMessage = "" THEN Null ELSE errorMessage,
               !.completed_at = now]]

\* updateSyncLog: the table after kamis_sync_logs.update({where: {id}, ...}).
updateSyncLog(id, processed, inserted, updated, status, errorMessage) ==
  [kamis_sync_logs EXCEPT ![id] =
     [@ EXCEPT !.records_processed = processed,
               !.records_inserted = inserted,
               !.records_updated = updated,
               !.status = status,
               !.error_message = IF errorMessage = "" THEN Null ELSE errorMessage,
               !.completed_at = now]]

\* What getKamisSyncStatus returns when there is no row (and from its catch).
NoStatus == [last_sync |-> Null, records_synced |-> 0, is_active |-> FALSE]

\* A status read that orders the log by started_at ascending.
getKamisSyncStatus_oldest(readFails) ==
  IF readFails \/ kamis_sync_logs = <<>> THEN {NoStatus}
  ELSE {[last_sync |-> kamis_sync_logs[id].started_at,
         records_synced |-> kamis_sync_logs[id].records_inserted
                              + kamis_sync_logs[id].records_updated,
         is_active |-> kamis_sync_logs[id].status = "running"] :
          id \in {i \in DOMAIN kamis_sync_logs :
                    \A j \in DOMAIN kamis_sync_logs :
                      kamis_sync_logs[i].started_at <= kamis_sync_logs[j].started_at}}

\* getKamisSyncStatus: the values it can return in the current state.
\* findFirst({orderBy: {started_at: 'desc'}}) returns a row with the
\* greatest started_at, any of them when several rows share it; when the
\* read fails the catch returns the value of an empty log.
getKamisSyncStatus(readFails) ==
  IF readFails \/ kamis_sync_logs = <<>> THEN {NoStatus}
  ELSE {[last_sync |-> kamis_sync_logs[id].started_at,
         records_synced |-> kamis_sync_logs[id].records_inserted
                              + kamis_sync_logs[id].records_updated,
         is_active |-> kamis_sync_logs[id].status = "running"] :
          id \in {i \in DOMAIN kamis_sync_logs :
                    \A j \in DOMAIN kamis_sync_logs :
                      kamis_sync_logs[j].started_at <= kamis_sync_logs[i].started_at}}

(***************************************************************************)
(* processKamisFile and syncKamisData                                      *)
(***************************************************************************)
\* p's locals when the transaction callback starts on the parsed rows.
Started(kind, rows, syncId, run) ==
  [Idle EXCEPT !.pc = IF rows = <<>> THEN "commit" ELSE "row",
               !.kind = kind, !.rows = rows, !.syncId = syncId, !.run = run]

\* A failure that leaves syncKamisData without the run log being written.
Raised_unlogged(kind, syncId, run, message) ==
  [Idle EXCEPT !.kind = kind, !.syncId = syncId, !.run = run, !.outcome = "raised",
               !.error = message]

\* p's locals when an error leaves processKamisFile (or precedes it): the
\* catch of syncKamisData is next, or the HTTP handler passes the error on.
Raised(kind, syncId, run, message) ==
  IF kind = "sync"
  THEN [Idle EXCEPT !.pc = "failLog", !.kind = kind, !.syncId = syncId, !.run = run,
                    !.error = message]
  ELSE [Idle EXCEPT !.kind = kind, !.run = run, !.outcome = "raised", !.error = message]

\* processKamisFile up to the first statement of the transaction.
Entered(kind, input, syncId, run) ==
  IF ~input.decodable THEN Raised(kind, syncId, run, "Failed to parse file")
  ELSE Started(kind, input.rows, syncId, run)

\* No other caller is inside an invocation.
Quiet(p) == \A q \in Procs \ {p} : proc[q].pc = "idle"

\* The callers' locals when p begins an invocation: what the callers that
\* are not inside one last got back is kept no longer.
Forgotten(p) == [q \in Procs |-> IF proc[q].pc = "idle" THEN Idle ELSE proc[q]]

\* The history when p begins an invocation on the given input.
Begun(p, input) ==
  LET again == /\ Quiet(p) /\ hist.last.valid /\ input.decodable
               /\ hist.last.rows = input.rows /\ hist.last.day = DateOf(now)
  IN [last |-> NoLast,
      by |-> [q \in Procs |->
        IF q = p
        THEN [alone |-> Quiet(p), again |-> again,
              priorInserted |-> IF again THEN hist.last.inserted ELSE 0,
              priorErrors |-> IF again THEN hist.last.errors ELSE 0,
              n0 |-> Cardinality(price_entries),
              empty0 |-> crops = {} /\ regions = {} /\ markets = {} /\ price_entries = {},
              day0 |-> DateOf(now), sameDay |-> FALSE]
        ELSE IF proc[q].pc = "idle" THEN NoHist
        ELSE [hist.by[q] EXCEPT !.alone = FALSE]]]

\* syncKamisData from its call up to the first statement of the transaction:
\* startSyncLog, the scraper, the read of its output file, the parse.
TriggerSync(p, inputs) ==
  /\ proc[p].pc = "idle" /\ started < MaxBatches
  /\ \E input \in inputs :
       LET syncId == Len(kamis_sync_logs) + 1
           next == IF ~input.exists
                   THEN Raised("sync", syncId, started + 1,
                               "Scraper finished but no output file found")
                   ELSE Entered("sync", input, syncId, started + 1)
       IN /\ kamis_sync_logs' = Append(kamis_sync_logs, startSyncLog)
          /\ proc' = [Forgotten(p) EXCEPT ![p] = next]
          /\ tx' = [tx EXCEPT ![p] = IF next.pc \in {"row", "commit"}
                                     THEN [NoTx EXCEPT !.state = "open"] ELSE NoTx]
          /\ hist' = Begun(p, input)
  /\ rowLog' = [q \in Procs |-> IF proc[q].pc = "idle" THEN <<>> ELSE rowLog[q]]
  /\ started' = started + 1
  /\ UNCHANGED <<store, now, ticks, seeded>>

\* An upload that opens a run in the log as a sync does.
UploadKamisData_logged(p, inputs) ==
  /\ p = "admin"
  /\ proc[p].pc = "idle" /\ started < MaxBatches
  /\ \E input \in inputs :
       LET next == IF ~input.exists
                   THEN Raised("upload", NullId, started + 1, "No file uploaded")
                   ELSE Entered("upload", input, NullId, started + 1)
       IN /\ proc' = [Forgotten(p) EXCEPT ![p] = next]
          /\ tx' = [tx EXCEPT ![p] = IF next.pc \in {"row", "commit"}
                                     THEN [NoTx EXCEPT !.state = "open"] ELSE NoTx]
          /\ hist' = Begun(p, input)
  /\ rowLog' = [q \in Procs |-> IF proc[q].pc = "idle" THEN <<>> ELSE rowLog[q]]
  /\ started' = started + 1
  /\ kamis_sync_logs' = Append(kamis_sync_logs, startSyncLog)
  /\ UNCHANGED <<store, now, ticks, seeded>>

\* uploadKamisData: the admin's upload, up to the first statement of the
\* transaction.
UploadKamisData(p, inputs) ==
  /\ p = "admin"
  /\ proc[p].pc = "idle" /\ started < MaxBatches
  /\ \E input \in inputs :
       LET next == IF ~input.exists
                   THEN Raised("upload", NullId, started + 1, "No file uploaded")
                   ELSE Entered("upload", input, NullId, started + 1)
       IN /\ proc' = [Forgotten(p) EXCEPT ![p] = next]
          /\ tx' = [tx EXCEPT ![p] = IF next.pc \in {"row", "commit"}
                                     THEN [NoTx EXCEPT !.state = "open"] ELSE NoTx]
          /\ hist' = Begun(p, input)
  /\ rowLog' = [q \in Procs |-> IF proc[q].pc = "idle" THEN <<>> ELSE rowLog[q]]
  /\ started' = started + 1
  /\ UNCHANGED <<store, kamis_sync_logs, now, ticks, seeded>>

\* The row the loop is at.
rawRow(p) == proc[p].rows[proc[p].i]

\* p's locals when the loop moves on from the current row.
NextRow(pr) ==
  [pr EXCEPT !.i = pr.i + 1,
             !.pc = IF pr.i + 1 > Len(pr.rows) THEN "commit" ELSE "row",
             !.cropId = NullId, !.regionId = NullId, !.marketId = NullId,
             !.entryDate = 0]

\* What rowLog records of the row that ends: its counter, why, and the ids
\* resolved for it.
Logged(p, counter, cause, cropId, regionId, marketId) ==
  Append(rowLog[p], [counter |-> counter, cause |-> cause, cropId |-> cropId,
                     regionId |-> regionId, marketId |-> marketId])

\* A skip that counts nothing.
Skip_uncounted(p, cause) ==
  /\ proc' = [proc EXCEPT ![p] = NextRow(@)]
  /\ rowLog' = [rowLog EXCEPT ![p] =
       Logged(p, "skipped", cause, proc[p].cropId, proc[p].regionId, proc[p].marketId)]

\* skippedCount++; continue
Skip(p, cause) ==
  /\ proc' = [proc EXCEPT ![p] = NextRow([@ EXCEPT !.skippedCount = @ + 1])]
  /\ rowLog' = [rowLog EXCEPT ![p] =
       Logged(p, "skipped", cause, proc[p].cropId, proc[p].regionId, proc[p].marketId)]

\* catch (rowError) { errorCount++ }.  An error the database raised leaves
\* the PostgreSQL transaction aborted: it refuses every later statement and
\* its COMMIT rolls back.
RowError(p, cause, aborts) ==
  /\ proc' = [proc EXCEPT ![p] = NextRow([@ EXCEPT !.errorCount = @ + 1])]
  /\ rowLog' = [rowLog EXCEPT ![p] =
       Logged(p, "errors", cause, proc[p].cropId, proc[p].regionId, proc[p].marketId)]
  /\ tx' = IF aborts THEN [tx EXCEPT ![p].state = "aborted"] ELSE tx

\* Does another open transaction hold an uncommitted row that the unique
\* index would make this insert wait for?
Others(p) == {q \in Procs \ {p} : tx[q].state # "none"}

\* A lookup that compares names exactly.
cropRes_exact(p) == {c \in VisCrops(p) : c.name = cropName(rawRow(p))}

\* The rows crops.findFirst({name: {equals: cropName, mode: 'insensitive'}})
\* returns one of.
cropRes(p) ==
  {c \in VisCrops(p) : toLowerCase(c.name) = toLowerCase(cropName(rawRow(p)))}

\* A lookup that compares region names exactly.
regionRes_exact(p) == {g \in VisRegions(p) : g.name = regionName(rawRow(p))}

\* The rows regions.findFirst returns one of.
regionRes(p) ==
  {g \in VisRegions(p) : toLowerCase(g.name) = toLowerCase(regionName(rawRow(p)))}

\* A lookup that finds a market by its name alone, in whatever region.
marketRes_anyRegion(p) ==
  {m \in VisMarkets(p) : toLowerCase(m.name) = toLowerCase(marketName(rawRow(p)))}

\* The rows markets.findFirst returns one of.
marketRes(p) ==
  {m \in VisMarkets(p) :
     /\ toLowerCase(m.name) = toLowerCase(marketName(rawRow(p)))
     /\ m.region_id = proc[p].regionId}

\* Extraction, validation and crops.findFirst for the current row.
RowStart(p) ==
  /\ proc[p].pc = "row"
  /\ LET r == rawRow(p)
         hits == cropRes(p)
     IN IF RowRejected(r) THEN Skip(p, "rejected") /\ UNCHANGED tx
        ELSE IF tx[p].state = "aborted" THEN RowError(p, "aborted", FALSE)
        ELSE /\ \/ /\ hits = {}
                   /\ proc' = [proc EXCEPT ![p].pc = "cropCreate",
                                           ![p].entryDate = entryDate(r, now)]
                \/ \E c \in hits :
                     proc' = [proc EXCEPT ![p].pc = "regionFind", ![p].cropId = c.id,
                                          ![p].entryDate = entryDate(r, now)]
             /\ UNCHANGED <<tx, rowLog>>
  /\ UNCHANGED <<store, kamis_sync_logs, now, ticks, started, seeded, hist>>

\* crops.create
CropCreate(p) ==
  /\ proc[p].pc = "cropCreate"
  /\ LET name == cropName(rawRow(p))
         cat == categorizeCrop(name)
         id == NewId(AllCrops)
     IN IF \E c \in VisCrops(p) : c.name = name
        THEN RowError(p, "unique", TRUE)
        ELSE /\ \A q \in Others(p) : \A c \in tx[q].crops : c.name # name
             /\ tx' = [tx EXCEPT ![p].crops = @ \cup
                  {[id |-> id, name |-> name, category |-> cat,
                    unit |-> determineUnit(cat, name), is_active |-> TRUE,
                    run |-> proc[p].run]}]
             /\ proc' = [proc EXCEPT ![p].pc = "regionFind", ![p].cropId = id]
             /\ UNCHANGED rowLog
  /\ UNCHANGED <<store, kamis_sync_logs, now, ticks, started, seeded, hist>>

\* regions.findFirst
RegionFind(p) ==
  /\ proc[p].pc = "regionFind"
  /\ LET r == rawRow(p)
         hits == regionRes(p)
     IN \/ /\ hits = {}
           /\ proc' = [proc EXCEPT ![p].pc = "regionCreate"]
        \/ \E g \in hits :
             proc' = [proc EXCEPT ![p].regionId = g.id,
                        ![p].pc = IF marketName(r) = <<>> THEN "dupFind" ELSE "marketFind"]
  /\ UNCHANGED <<store, kamis_sync_logs, tx, rowLog, now, ticks, started, seeded, hist>>

\* regions.create
RegionCreate(p) ==
  /\ proc[p].pc = "regionCreate"
  /\ LET r == rawRow(p)
         name == regionName(r)
         code == ReplaceSpaces(toUpperCase(name))
         id == NewId(AllRegions)
     IN IF Len(code) > RegionCodeMax
        THEN RowError(p, "too long", TRUE)
        ELSE IF \E g \in VisRegions(p) : g.name = name \/ g.code = code
        THEN RowError(p, "unique", TRUE)
        ELSE /\ \A q \in Others(p) : \A g \in tx[q].regions : g.name # name /\ g.code # code
             /\ tx' = [tx EXCEPT ![p].regions = @ \cup
                  {[id |-> id, name |-> name, code |-> code, is_active |-> TRUE,
                    run |-> proc[p].run]}]
             /\ proc' = [proc EXCEPT ![p].regionId = id,
                  ![p].pc = IF marketName(r) = <<>> THEN "dupFind" ELSE "marketFind"]
             /\ UNCHANGED rowLog
  /\ UNCHANGED <<store, kamis_sync_logs, now, ticks, started, seeded, hist>>

\* markets.findFirst
MarketFind(p) ==
  /\ proc[p].pc = "marketFind"
  /\ LET hits == marketRes(p)
     IN \/ /\ hits = {}
           /\ proc' = [proc EXCEPT ![p].pc = "marketCreate"]
        \/ \E m \in hits :
             proc' = [proc EXCEPT ![p].marketId = m.id, ![p].pc = "dupFind"]
  /\ UNCHANGED <<store, kamis_sync_logs, tx, rowLog, now, ticks, started, seeded, hist>>

\* A create that leaves the market's region out.
MarketCreate_noRegion(p) ==
  /\ proc[p].pc = "marketCreate"
  /\ LET name == marketName(rawRow(p))
         id == NewId(AllMarkets)
     IN /\ tx' = [tx EXCEPT ![p].markets = @ \cup
              {[id |-> id, name |-> name, region_id |-> NullId, is_active |-> TRUE,
                run |-> proc[p].run]}]
        /\ proc' = [proc EXCEPT ![p].marketId = id, ![p].pc = "dupFind"]
        /\ UNCHANGED rowLog
  /\ UNCHANGED <<store, kamis_sync_logs, now, ticks, started, seeded, hist>>

\* markets.create
MarketCreate(p) ==
  /\ proc[p].pc = "marketCreate"
  /\ LET name == marketName(rawRow(p))
         rid == proc[p].regionId
         id == NewId(AllMarkets)
     IN IF \E m \in VisMarkets(p) : m.name = name /\ m.region_id = rid
        THEN RowError(p, "unique", TRUE)
        ELSE /\ \A q \in Others(p) :
                  \A m \in tx[q].markets : ~(m.name = name /\ m.region_id = rid)
             /\ tx' = [tx EXCEPT ![p].markets = @ \cup
                  {[id |-> id, name |-> name, region_id |-> rid, is_active |-> TRUE,
                    run |-> proc[p].run]}]
             /\ proc' = [proc EXCEPT ![p].marketId = id, ![p].pc = "dupFind"]
             /\ UNCHANGED rowLog
  /\ UNCHANGED <<store, kamis_sync_logs, now, ticks, started, seeded, hist>>

\* A dedup query that compares the timestamp with the stored day.
dupCheck_timestamp(p) ==
  {e \in VisEntries(p) :
     /\ e.crop_id = proc[p].cropId
     /\ e.region_id = proc[p].regionId
     /\ e.market_id = proc[p].marketId
     /\ e.entry_date >= startOfDay(proc[p].entryDate)
     /\ e.entry_date <= endOfDay(proc[p].entryDate)}

\* A dedup query that looks only at the entries of source kamis.
dupCheck_kamisOnly(p) ==
  {e \in VisEntries(p) :
     /\ e.source = "kamis"
     /\ e.crop_id = proc[p].cropId
     /\ e.region_id = proc[p].regionId
     /\ e.market_id = proc[p].marketId
     /\ e.entry_date >= DateOf(startOfDay(proc[p].entryDate))
     /\ e.entry_date <= DateOf(endOfDay(proc[p].entryDate))}

\* The rows price_entries.findFirst returns one of.
dupCheck(p) ==
  {e \in VisEntries(p) :
     /\ e.crop_id = proc[p].cropId
     /\ e.region_id = proc[p].regionId
     /\ e.market_id = proc[p].marketId
     /\ e.entry_date >= DateOf(startOfDay(proc[p].entryDate))
     /\ e.entry_date <= DateOf(endOfDay(proc[p].entryDate))}

\* price_entries.findFirst; Prisma rejects an Invalid Date in the filter
\* before it sends anything, so that error leaves the transaction usable.
DupFind(p) ==
  /\ proc[p].pc = "dupFind"
  /\ IF proc[p].entryDate = InvalidDate THEN RowError(p, "invalid date", FALSE)
     ELSE IF dupCheck(p) # {} THEN Skip(p, "duplicate") /\ UNCHANGED tx
     ELSE /\ proc' = [proc EXCEPT ![p].pc = "entryCreate"]
          /\ UNCHANGED <<tx, rowLog>>
  /\ UNCHANGED <<store, kamis_sync_logs, now, ticks, started, seeded, hist>>

\* A create that gives the price entry the unit of its crop.
EntryCreate_cropUnit(p) ==
  /\ proc[p].pc = "entryCreate"
  /\ tx' = [tx EXCEPT ![p].price_entries = @ \cup
       {[id |-> NewId(AllEntries), crop_id |-> proc[p].cropId,
         region_id |-> proc[p].regionId, market_id |-> proc[p].marketId,
         price |-> priceVal(rawRow(p)).v, entry_date |-> DateOf(proc[p].entryDate),
         source |-> "kamis", is_verified |-> TRUE,
         unit |-> (CHOOSE c \in VisCrops(p) : c.id = proc[p].cropId).unit,
         run |-> proc[p].run]}]
  /\ proc' = [proc EXCEPT ![p] = NextRow([@ EXCEPT !.insertedCount = @ + 1])]
  /\ rowLog' = [rowLog EXCEPT ![p] =
       Logged(p, "inserted", "created", proc[p].cropId, proc[p].regionId, proc[p].marketId)]
  /\ UNCHANGED <<store, kamis_sync_logs, now, ticks, started, seeded, hist>>

\* price_entries.create; insertedCount++
EntryCreate(p) ==
  /\ proc[p].pc = "entryCreate"
  /\ tx' = [tx EXCEPT ![p].price_entries = @ \cup
       {[id |-> NewId(AllEntries), crop_id |-> proc[p].cropId,
         region_id |-> proc[p].regionId, market_id |-> proc[p].marketId,
         price |-> priceVal(rawRow(p)).v, entry_date |-> DateOf(proc[p].entryDate),
         source |-> "kamis", is_verified |-> TRUE, unit |-> "kg",
         run |-> proc[p].run]}]
  /\ proc' = [proc EXCEPT ![p] = NextRow([@ EXCEPT !.insertedCount = @ + 1])]
  /\ rowLog' = [rowLog EXCEPT ![p] =
       Logged(p, "inserted", "created", proc[p].cropId, proc[p].regionId, proc[p].marketId)]
  /\ UNCHANGED <<store, kamis_sync_logs, now, ticks, started, seeded, hist>>

\* The statement the loop is at. 
AtStatement(p) ==
  \/ proc[p].pc \in {"cropCreate", "regionFind", "regionCreate", "marketFind",
                     "marketCreate", "dupFind", "entryCreate"}
  \/ proc[p].pc = "row" /\ ~RowRejected(rawRow(p))

\* A storage fault on the statement the loop is at (a lost connection, a
\* deadlock victim): the statement throws and the transaction is aborted.
StorageFault(p) ==
  /\ AtStatement(p) /\ tx[p].state = "open"
  /\ RowError(p, "fault", TRUE)
  /\ UNCHANGED <<store, kamis_sync_logs, now, ticks, started, seeded, hist>>

\* A timeout that keeps the reference rows the transaction had written.
TxTimeout_keepsCrops(p) ==
  /\ proc[p].pc \in {"row", "cropCreate", "regionFind", "regionCreate", "marketFind",
                     "marketCreate", "dupFind", "entryCreate", "commit"}
  /\ crops' = crops \cup tx[p].crops
  /\ tx' = [tx EXCEPT ![p] = NoTx]
  /\ proc' = [proc EXCEPT ![p] =
       Raised(proc[p].kind, proc[p].syncId, proc[p].run, "Transaction already closed")]
  /\ UNCHANGED <<regions, markets, price_entries, kamis_sync_logs, rowLog, now, ticks,
                 started, seeded, hist>>

\* The transaction ends without committing: its 20 s budget elapses, or the
\* connection fails.  Prisma rolls it back and $transaction rejects; what
\* the callback still does (every later statement throws into the row's
\* catch) changes nothing that is kept.
TxTimeout(p) ==
  /\ proc[p].pc \in {"row", "cropCreate", "regionFind", "regionCreate", "marketFind",
                     "marketCreate", "dupFind", "entryCreate", "commit"}
  /\ tx' = [tx EXCEPT ![p] = NoTx]
  /\ proc' = [proc EXCEPT ![p] =
       Raised(proc[p].kind, proc[p].syncId, proc[p].run, "Transaction already closed")]
  /\ UNCHANGED <<store, kamis_sync_logs, rowLog, now, ticks, started, seeded, hist>>

\* A commit after which the batch's price entries are the only ones.
Commit_replaces(p) ==
  /\ proc[p].pc = "commit"
  /\ IF tx[p].state = "open"
     THEN /\ crops' = crops \cup tx[p].crops
          /\ regions' = regions \cup tx[p].regions
          /\ markets' = markets \cup tx[p].markets
          /\ price_entries' = tx[p].price_entries
     ELSE UNCHANGED store
  /\ tx' = [tx EXCEPT ![p] = NoTx]
  /\ LET result == [inserted |-> proc[p].insertedCount, skipped |-> proc[p].skippedCount,
                    errors |-> proc[p].errorCount, total_rows |-> Len(proc[p].rows)]
     IN proc' = [proc EXCEPT ![p] =
          IF proc[p].kind = "sync"
          THEN [Idle EXCEPT !.pc = "okLog", !.kind = "sync", !.rows = proc[p].rows,
                            !.syncId = proc[p].syncId, !.run = proc[p].run,
                            !.result = result]
          ELSE [Idle EXCEPT !.kind = "upload", !.rows = proc[p].rows,
                            !.run = proc[p].run, !.outcome = "returned",
                            !.result = result]]
  /\ hist' = [hist EXCEPT
       !.last = IF hist.by[p].alone
                THEN [valid |-> TRUE, rows |-> proc[p].rows,
                      inserted |-> proc[p].insertedCount, errors |-> proc[p].errorCount,
                      day |-> hist.by[p].day0]
                ELSE NoLast,
       !.by[p].sameDay = (DateOf(now) = hist.by[p].day0)]
  /\ UNCHANGED <<kamis_sync_logs, rowLog, now, ticks, started, seeded>>

\* The callback returns its counts and Prisma sends COMMIT.  PostgreSQL
\* answers the COMMIT of an aborted transaction by rolling it back, without
\* an error, so processKamisFile returns the counts either way.
Commit(p) ==
  /\ proc[p].pc = "commit"
  /\ IF tx[p].state = "open"
     THEN /\ crops' = crops \cup tx[p].crops
          /\ regions' = regions \cup tx[p].regions
          /\ markets' = markets \cup tx[p].markets
          /\ price_entries' = price_entries \cup tx[p].price_entries
     ELSE UNCHANGED store
  /\ tx' = [tx EXCEPT ![p] = NoTx]
  /\ LET result == [inserted |-> proc[p].insertedCount, skipped |-> proc[p].skippedCount,
                    errors |-> proc[p].errorCount, total_rows |-> Len(proc[p].rows)]
     IN proc' = [proc EXCEPT ![p] =
          IF proc[p].kind = "sync"
          THEN [Idle EXCEPT !.pc = "okLog", !.kind = "sync", !.rows = proc[p].rows,
                            !.syncId = proc[p].syncId, !.run = proc[p].run,
                            !.result = result]
          ELSE [Idle EXCEPT !.kind = "upload", !.rows = proc[p].rows,
                            !.run = proc[p].run, !.outcome = "returned",
                            !.result = result]]
  /\ hist' = [hist EXCEPT
       !.last = IF hist.by[p].alone
                THEN [valid |-> TRUE, rows |-> proc[p].rows,
                      inserted |-> proc[p].insertedCount, errors |-> proc[p].errorCount,
                      day |-> hist.by[p].day0]
                ELSE NoLast,
       !.by[p].sameDay = (DateOf(now) = hist.by[p].day0)]
  /\ UNCHANGED <<kamis_sync_logs, rowLog, now, ticks, started, seeded>>

\* syncKamisData after processKamisFile returned: updateSyncLog(...,
\* 'completed') and the return.
FinishCompleted(p) ==
  /\ proc[p].pc = "okLog"
  /\ kamis_sync_logs' = updateSyncLog(proc[p].syncId, proc[p].result.total_rows,
                                      proc[p].result.inserted, 0, "completed", "")
  /\ proc' = [proc EXCEPT ![p].pc = "idle", ![p].outcome = "returned"]
  /\ UNCHANGED <<store, tx, rowLog, now, ticks, started, seeded, hist>>

\* The catch of syncKamisData: updateSyncLog(..., 'failed', error.message)
\* and the rethrow.
FinishFailed(p) ==
  /\ proc[p].pc = "failLog"
  /\ kamis_sync_logs' = updateSyncLog(proc[p].syncId, 0, 0, 0, "failed", proc[p].error)
  /\ proc' = [proc EXCEPT ![p].pc = "idle", ![p].outcome = "raised"]
  /\ UNCHANGED <<store, tx, rowLog, now, ticks, started, seeded, hist>>

\* kamis_sync_logs.update itself fails.  On the success path the error
\* lands in the catch, which tries again; in the catch it leaves
\* syncKamisData with nothing written.
FinishFault(p) ==
  /\ \/ /\ proc[p].pc = "okLog"
        /\ proc' = [proc EXCEPT ![p].pc = "failLog", ![p].result = NoResult,
                                ![p].error = "kamis_sync_logs.update failed"]
     \/ /\ proc[p].pc = "failLog"
        /\ proc' = [proc EXCEPT ![p].pc = "idle", ![p].outcome = "raised",
                                ![p].error = "kamis_sync_logs.update failed"]
  /\ UNCHANGED <<store, kamis_sync_logs, tx, rowLog, now, ticks, started, seeded, hist>>

\* createPriceEntry: a manual price entry for an existing crop and region,
\* with or without a market name and an entry date; unit and source take
\* their defaults.  Its statements run outside any transaction.
CreatePriceEntry ==
  /\ Cardinality({e \in price_entries : e.source # "kamis"}) < MaxManual
  /\ \E c \in crops, g \in regions, market \in {<<>>, Kongowea}, entry_date \in {<<>>, D0110} :
       LET hits == {m \in markets : /\ toLowerCase(m.name) = toLowerCase(trim(market))
                                    /\ m.region_id = g.id}
           creates == market # <<>> /\ hits = {}
           newId == NewId(AllMarkets)
           ids == IF market = <<>> THEN {NullId}
                  ELSE IF creates THEN {newId} ELSE {m.id : m \in hits}
       IN /\ creates =>
               \A q \in Procs : \A m \in tx[q].markets :
                 ~(m.name = trim(market) /\ m.region_id = g.id)
          /\ markets' = IF creates
                        THEN markets \cup {[id |-> newId, name |-> trim(market),
                                            region_id |-> g.id, is_active |-> TRUE, run |-> 0]}
                        ELSE markets
          /\ \E resolvedMarketId \in ids :
               price_entries' = price_entries \cup
                 {[id |-> NewId(AllEntries), crop_id |-> c.id, region_id |-> g.id,
                   market_id |-> resolvedMarketId, price |-> parseFloat(P4600).v,
                   entry_date |-> DateOf(IF entry_date = <<>> THEN now
                                         ELSE DateParse(entry_date)),
                   source |-> "farmer", is_verified |-> FALSE, unit |-> "kg", run |-> 0]}
  /\ UNCHANGED <<crops, regions, kamis_sync_logs, tx, proc, rowLog, now, ticks, started,
                 seeded, hist>>

(***************************************************************************)
(* Specifications                                                          *)
(***************************************************************************)
\* One step of p's transaction.
StepTx(p) ==
  \/ RowStart(p)
  \/ CropCreate(p)
  \/ RegionFind(p)
  \/ RegionCreate(p)
  \/ MarketFind(p)
  \/ MarketCreate(p)
  \/ DupFind(p)
  \/ EntryCreate(p)
  \/ TxTimeout(p)
  \/ Commit(p)

\* One step of syncKamisData after processKamisFile.
StepLog(p) ==
  \/ FinishCompleted(p)
  \/ FinishFailed(p)

\* Racing invocations: the cron job and an admin's request overlap freely,
\* within one hour of the clock.  The statements that fail here are the
\* ones a unique index or a column's width refuses.
Next ==
  \/ Seed
  \/ \E p \in Procs : TriggerSync(p, RaceFiles)
  \/ \E p \in Procs : UploadKamisData(p, RaceFiles)
  \/ \E p \in Procs : StepTx(p)
  \/ \E p \in Procs : StepLog(p)

Spec == Init /\ [][Next]_vars

\* Sequential calls of processKamisFile: an admin's uploads, one after
\* another, as days pass.
NextSeq ==
  \/ Seed
  \/ Tick
  \/ UploadKamisData("admin", Files)
  \/ StepTx("admin")
  \/ StorageFault("admin")

SpecSeq == Init /\ [][NextSeq]_vars

\* The cron job's syncs, one after another, when a write of the run log
\* can fail.
NextLogFault ==
  \/ Seed
  \/ TriggerSync("cron", RaceFiles)
  \/ StepTx("cron")
  \/ StorageFault("cron")
  \/ StepLog("cron")
  \/ FinishFault("cron")

SpecLogFault == Init /\ [][NextLogFault]_vars

\* The cron job's syncs, one after another, as time passes.
NextStatus ==
  \/ Tick
  \/ TriggerSync("cron", RaceFiles)
  \/ StepTx("cron")
  \/ StepLog("cron")

SpecStatus == Init /\ [][NextStatus]_vars

\* Uploads that bring new crop names, one after another.
NextNames ==
  \/ UploadKamisData("admin", NameFiles)
  \/ StepTx("admin")

SpecNames == Init /\ [][NextNames]_vars

\* Inputs of the uploads that meet manual entries: one fact with and
\* without a market, dated and undated.
ManualFiles ==
  {Parsed(f) : f \in {<<Row(Maize, Coast, <<>>, P4550, D0110)>>,
                       <<Row(MAIZE, COAST, Kongowea, P4600, D0110)>>,
                       <<AliasRow(Maize, Coast, P1k)>>}}

\* An admin's uploads, one after another, among manual price entries.
NextManual ==
  \/ Seed
  \/ CreatePriceEntry
  \/ UploadKamisData("admin", ManualFiles)
  \/ StepTx("admin")

SpecManual == Init /\ [][NextManual]_vars

TypeOK ==
  /\ \A p \in Procs : proc[p].pc \in
       {"idle", "row", "cropCreate", "regionFind", "regionCreate", "marketFind",
        "marketCreate", "dupFind", "entryCreate", "commit", "okLog", "failLog"}
  /\ \A p \in Procs : tx[p].state \in {"none", "open", "aborted"}
  /\ started \in 0..MaxBatches

(***************************************************************************)
(* Properties                                                              *)
(***************************************************************************)
\* The causes that leave the transaction aborted.
AbortingCauses == {"unique", "too long", "fault", "aborted"}

\* p's call returned and its transaction was committed, not rolled back.
Committed(p) ==
  /\ proc[p].result # NoResult
  /\ \A j \in DOMAIN rowLog[p] : rowLog[p][j].cause \notin AbortingCauses

\* The rows of p's batch that have ended and are still at hand.
Ended(p) == DOMAIN rowLog[p] \cap DOMAIN proc[p].rows

\* The price entries p's invocation has committed.
CommittedBy(p) == {e \in price_entries : e.run = proc[p].run}

\* p's call returned, on the rows and on the day of the call that returned
\* just before it, nobody writing in between.
RanAgain(p) == proc[p].result # NoResult /\ hist.by[p].again /\ hist.by[p].sameDay

\* C1: a second run of processFile on the identical file, on the
\* same day and with no other writer in between, returns inserted = 0 and
\* leaves the set of price entries as it was.
C1_Idempotent ==
  \A p \in Procs :
    RanAgain(p) =>
      /\ proc[p].result.inserted = 0
      /\ Cardinality(price_entries) = hist.by[p].n0
      /\ CommittedBy(p) = {}

\* Idempotence after a first run that returned errors = 0 (no statement of
\* it failed, so its transaction was committed).
IdempotentAfterCleanRun ==
  \A p \in Procs :
    (RanAgain(p) /\ hist.by[p].priorErrors = 0) =>
      /\ proc[p].result.inserted = 0
      /\ Cardinality(price_entries) = hist.by[p].n0
      /\ CommittedBy(p) = {}

\* A second run after a clean first run that had inserted rows: every such
\* row is now skipped.
IdempotentAfterCleanRunReached ==
  \E p \in Procs :
    /\ RanAgain(p) /\ hist.by[p].priorErrors = 0
    /\ hist.by[p].priorInserted > 0
    /\ proc[p].result.skipped >= hist.by[p].priorInserted

\* C2: no two price entries of the engine share crop, region, market and
\* calendar day, whatever the interleaving of batches.
C2_NoDuplicateFacts ==
  \A e1, e2 \in price_entries :
    (/\ e1.source = "kamis" /\ e2.source = "kamis"
     /\ e1.crop_id = e2.crop_id /\ e1.region_id = e2.region_id
     /\ e1.market_id = e2.market_id /\ e1.entry_date = e2.entry_date)
    => e1.id = e2.id

\* A row the specification rejects: no crop, no region, or a price that is
\* not a number or not positive.
Rejectable(r) ==
  \/ cropName(r) = <<>> \/ regionName(r) = <<>>
  \/ isNaN(priceVal(r)) \/ priceVal(r).v <= 0

\* C3: a row with an empty crop or region name, a non-numeric price or a
\* price that is zero or negative is counted in skipped, never in errors or
\* inserted (so no price entry is inserted for it).
C3_RejectedRowsSkipped ==
  \A p \in Procs : \A j \in Ended(p) :
    Rejectable(proc[p].rows[j]) => rowLog[p][j].counter = "skipped"

\* The sync runs whose transaction ended in an error (the callback did not
\* return normally to a commit).
RaisedInTx == {id \in DOMAIN kamis_sync_logs :
                 \E p \in Procs : /\ proc[p].kind = "sync" /\ proc[p].syncId = id
                                  /\ proc[p].error = "Transaction already closed"}

Ends(p) == proc[p].pc \in {"okLog", "failLog"} /\ proc'[p].pc = "idle"

\* One step, as the life cycle of a SyncRun allows it.
C5_Step ==
  /\ Len(kamis_sync_logs') >= Len(kamis_sync_logs)
  /\ \A id \in DOMAIN kamis_sync_logs :
       \/ kamis_sync_logs'[id] = kamis_sync_logs[id]
       \/ /\ kamis_sync_logs[id].status = "running"
          /\ kamis_sync_logs'[id].status \in {"completed", "failed"}
          /\ \E p \in Procs : proc[p].syncId = id /\ Ends(p)
  /\ \A id \in DOMAIN kamis_sync_logs' \ DOMAIN kamis_sync_logs :
       /\ id = Len(kamis_sync_logs) + 1
       /\ kamis_sync_logs'[id].status = "running"
       /\ \E p \in Procs :
            /\ proc[p].pc = "idle" /\ proc'[p].kind = "sync" /\ proc'[p].syncId = id
  /\ \A p \in Procs :
       /\ (proc[p].pc = "idle" /\ proc'[p].kind = "sync" /\ started' = started + 1
           /\ proc'[p].run = started')
            => /\ Len(kamis_sync_logs') = Len(kamis_sync_logs) + 1
               /\ proc'[p].syncId = Len(kamis_sync_logs')
       /\ Ends(p) =>
            /\ kamis_sync_logs[proc[p].syncId].status = "running"
            /\ kamis_sync_logs'[proc[p].syncId].status = 
                 IF proc[p].pc = "okLog" THEN "completed" ELSE "failed"

C6_EndedRunIsFinal ==
  \A id \in DOMAIN kamis_sync_logs :
    kamis_sync_logs[id].status = "running" =>
      \E p \in Procs : proc[p].kind = "sync" /\ proc[p].syncId = id /\ proc[p].pc # "idle"

\* The crops p's transaction sees, or the store holds once p has committed,
\* whose name equals that of row j ignoring case.
SameCrop(p, j) ==
  {c \in VisCrops(p) : toLowerCase(c.name) = toLowerCase(cropName(proc[p].rows[j]))}

\* C7: in sequential execution, two rows whose crop names differ only in
\* letter case resolve to the same crop id, and exactly one crop with that
\* name ignoring case exists afterwards, the one resolved.
C7_CropResolution ==
  \A p \in Procs : \A j \in Ended(p) :
    rowLog[p][j].cropId # NullId =>
      /\ \A i \in 1..(j - 1) :
           (/\ rowLog[p][i].cropId # NullId
            /\ toLowerCase(cropName(proc[p].rows[i])) = toLowerCase(cropName(proc[p].rows[j])))
           => rowLog[p][i].cropId = rowLog[p][j].cropId
      /\ (tx[p].state = "open" \/ Committed(p)) =>
           /\ Cardinality(SameCrop(p, j)) = 1
           /\ \A c \in SameCrop(p, j) : c.id = rowLog[p][j].cropId

\* A committed batch that created a crop for one row and resolved a later
\* row, written in another letter case, to it.
C7_Witness ==
  \E p \in Procs : \E i, j \in Ended(p) :
    /\ Committed(p) /\ i < j
    /\ cropName(proc[p].rows[i]) # cropName(proc[p].rows[j])
    /\ toLowerCase(cropName(proc[p].rows[i])) = toLowerCase(cropName(proc[p].rows[j]))
    /\ rowLog[p][i].cropId # NullId /\ rowLog[p][j].cropId = rowLog[p][i].cropId
    /\ \E c \in crops : c.id = rowLog[p][j].cropId /\ c.run = proc[p].run

\* A row the specification accepts: crop and region named, a positive
\* price, a date that is absent or valid.
Acceptable(r) == ~Rejectable(r) /\ entryDate(r, now) # InvalidDate

\* Two rows that name the same crop, region and market ignoring case, on the
\* same calendar day.
SameFact(r1, r2) ==
  /\ toLowerCase(cropName(r1)) = toLowerCase(cropName(r2))
  /\ toLowerCase(regionName(r1)) = toLowerCase(regionName(r2))
  /\ toLowerCase(marketName(r1)) = toLowerCase(marketName(r2))
  /\ DateOf(entryDate(r1, now)) = DateOf(entryDate(r2, now))

\* C8: a file of exactly two valid rows for the same crop, region, market
\* and day, processed on an empty store (no storage fault occurring), has
\* its first row inserted and its second skipped, and returns inserted = 1,
\* skipped = 1, errors = 0, total_rows = 2.
C8_SameDayDuplicate ==
  \A p \in Procs :
    (/\ proc[p].result # NoResult /\ hist.by[p].empty0 /\ hist.by[p].alone
     /\ Len(proc[p].rows) = 2
     /\ Acceptable(proc[p].rows[1]) /\ Acceptable(proc[p].rows[2])
     /\ SameFact(proc[p].rows[1], proc[p].rows[2])
     /\ \A j \in DOMAIN rowLog[p] : rowLog[p][j].cause # "fault")
    => /\ proc[p].result = [inserted |-> 1, skipped |-> 1, errors |-> 0, total_rows |-> 2]
       /\ rowLog[p][1].counter = "inserted"
       /\ rowLog[p][2].counter = "skipped"

\* C9: no two crops and no two regions have names equal ignoring case,
\* whatever the interleaving of batches.
C9_NamesUniqueIgnoringCase ==
  /\ \A c1, c2 \in crops : toLowerCase(c1.name) = toLowerCase(c2.name) => c1 = c2
  /\ \A g1, g2 \in regions : toLowerCase(g1.name) = toLowerCase(g2.name) => g1 = g2

\* C10: a row whose create of a crop, region or market meets a unique
\* violation (a racing batch created the row first) is not counted in
\* errors: the existing row is fetched and the row goes on.
C10_RaceRefetched ==
  \A p \in Procs : \A j \in DOMAIN rowLog[p] :
    rowLog[p][j].cause = "unique" => rowLog[p][j].counter # "errors"

\* The row's date cell is missing, or does not parse to a calendar date.
Undated(r) == entryDate(r, InvalidDate) = InvalidDate

\* C11: a row whose date field is missing or does not parse to a valid
\* calendar date is counted in skipped: no price entry is inserted for it,
\* so none is created with the current time standing in for its date.
\* (Rows that a storage error ended are left aside.)
C11_UndatedRowsSkipped ==
  \A p \in Procs : \A j \in Ended(p) :
    (Undated(proc[p].rows[j]) /\ rowLog[p][j].cause \notin AbortingCauses)
      => rowLog[p][j].counter = "skipped"

\* The committed rows that invocation r wrote, table by table.
RowsOf(r) ==
  <<{c \in crops : c.run = r}, {g \in regions : g.run = r},
    {m \in markets : m.run = r}, {e \in price_entries : e.run = r}>>

\* What p's transaction has written and not yet committed.
Pending(p) == <<tx[p].crops, tx[p].regions, tx[p].markets, tx[p].price_entries>>

\* In one step: the committed rows of an invocation change only when its
\* transaction commits, from none to all that the transaction wrote; a
\* transaction that ends otherwise (timed out, or aborted by a failed
\* statement) leaves none of its rows.
C12_Step ==
  /\ \A r \in 1..started :
       RowsOf(r)' # RowsOf(r) =>
         \E p \in Procs :
           /\ proc[p].run = r /\ proc[p].pc = "commit" /\ tx[p].state = "open"
           /\ tx'[p].state = "none" /\ proc'[p].result # NoResult
           /\ RowsOf(r) = <<{}, {}, {}, {}>>
           /\ RowsOf(r)' = Pending(p)
  /\ \A p \in Procs :
       (tx[p].state # "none" /\ tx'[p].state = "none") =>
         RowsOf(proc[p].run)' =
           IF tx[p].state = "open" /\ proc'[p].result # NoResult
           THEN Pending(p) ELSE <<{}, {}, {}, {}>>

\* C12: the crop, region, market and price entry rows that one batch writes
\* become visible together when it commits, and when its transaction times
\* out or is aborted none of them, reference rows included, exists
\* afterwards.
C12_BatchAtomicity == [][C12_Step]_vars

\* A batch has committed a crop, a market and a price entry that refers to
\* both, and another batch has timed out after writing a crop.
C12_Witness ==
  /\ \E c \in crops, m \in markets, e \in price_entries :
       /\ c.run > 0 /\ m.run = c.run /\ e.run = c.run
       /\ e.crop_id = c.id /\ e.market_id = m.id
  /\ \E p \in Procs :
       /\ proc[p].error = "Transaction already closed"
       /\ \E j \in DOMAIN rowLog[p] : rowLog[p][j].counter = "inserted"
       /\ RowsOf(proc[p].run) = <<{}, {}, {}, {}>>

\* The price entry p's invocation has committed for its row j, if any.
CommittedFor(p, j) ==
  {e \in CommittedBy(p) :
     /\ e.crop_id = rowLog[p][j].cropId
     /\ e.region_id = rowLog[p][j].regionId
     /\ e.market_id = rowLog[p][j].marketId}

\* C13: when a row of a batch ends in errors (an unexpected fault while it
\* was resolved or inserted), the batch is not aborted: no later row fails
\* for the reason that the transaction is aborted, and the price entries
\* inserted for the rows before it are committed when the batch returns.
C13_RowFaultIsolated ==
  \A p \in Procs :
    proc[p].result # NoResult =>
      \A i \in DOMAIN rowLog[p] :
        rowLog[p][i].counter = "errors" =>
          /\ \A j \in DOMAIN rowLog[p] : j > i => rowLog[p][j].cause # "aborted"
          /\ \A j \in DOMAIN rowLog[p] :
               (j < i /\ rowLog[p][j].counter = "inserted") => CommittedFor(p, j) # {}

\* In one step, for a caller p whose call has failed to parse its file.
C14_Step ==
  \A p \in Procs :
    proc'[p].error = "Failed to parse file" =>
      /\ proc[p].error # "Failed to parse file" => UNCHANGED store
      /\ tx'[p] = NoTx /\ rowLog'[p] = <<>>
      /\ \A w \in crops' \cup regions' \cup markets' \cup price_entries' :
           w.run # proc'[p].run
      /\ proc'[p].result = NoResult
      /\ proc'[p].pc \in {"failLog", "idle"}
      /\ proc'[p].pc = "idle" =>
           /\ proc'[p].outcome = "raised"
           /\ proc'[p].kind = "sync" =>
                kamis_sync_logs'[proc'[p].syncId].status = "failed"

RolledBack(p) ==
  /\ proc[p].pc \in {"idle", "okLog", "failLog"}
  /\ \/ proc[p].error = "Transaction already closed"
     \/ \E j \in DOMAIN rowLog[p] : rowLog[p][j].cause \in AbortingCauses

\* C15: on a fatal path (parse error, or the transaction rolled back) the
\* caller gets no aggregate, and the SyncRun of a failed triggerSync is
\* finalized with records_processed = records_inserted = records_updated =
\* 0; the SyncRun of a completed run has records_processed = total_rows and
\* records_inserted = inserted.
C15_FatalPathDiscardsCounts ==
  \A p \in Procs :
    /\ (proc[p].error = "Failed to parse file" \/ RolledBack(p)) =>
         proc[p].result = NoResult
    /\ (proc[p].kind = "sync" /\ proc[p].pc = "idle" /\ proc[p].outcome # "none") =>
         LET log == kamis_sync_logs[proc[p].syncId]
         IN /\ log.status = "failed" =>
                 /\ log.records_processed = 0 /\ log.records_inserted = 0
                 /\ log.records_updated = 0
            /\ log.status = "completed" =>
                 /\ log.records_processed = Len(proc[p].rows)
                 /\ log.records_inserted = proc[p].result.inserted

Created == {c \in AllCrops : c.run > 0}

\* The order of the classifier's rules, as specified.
RuleOrder ==
  <<"farm_inputs", "animal_feeds", "processed_products", "cash_crops", "livestock",
    "poultry", "fisheries", "animal_products", "cereals", "legumes", "roots_tubers",
    "fruits", "vegetables", "spices_herbs">>

\* Does the rule of category cat match the name, lower-cased?
RuleMatches(cat, name) ==
  \E r \in DOMAIN CategoryRules :
    /\ CategoryRules[r].category = cat
    /\ Matches(toLowerCase(name), CategoryRules[r].keywords)

\* The rules, by their place in RuleOrder, that match the name.
Matching(name) == {i \in DOMAIN RuleOrder : RuleMatches(RuleOrder[i], name)}

\* C17: classify gives every name the category of the first rule, in the
\* order farm_inputs, animal_feeds, processed_products, cash_crops,
\* livestock, poultry, fisheries, animal_products, cereals, legumes,
\* roots_tubers, fruits, vegetables, spices_herbs, whose keywords match the
\* lower-cased name, and general when none matches.
C17_FirstRuleWins ==
  \A c \in Created :
    /\ Matching(c.name) = {} => c.category = "general"
    /\ \A i \in Matching(c.name) :
         (\A h \in Matching(c.name) : i <= h) => c.category = RuleOrder[i]

\* Crops have been created for a name that two rules match, classified by
\* the earlier one, and for a name that no rule matches.
C17_Witness ==
  /\ \E c \in Created : \E i, h \in Matching(c.name) : i < h /\ c.category = RuleOrder[i]
  /\ \E c \in Created : Matching(c.name) = {} /\ c.category = "general"

\* milk, oil, juice, honey, yoghurt
LiquidWords ==
  <<<<109, 105, 108, 107>>, <<111, 105, 108>>, <<106, 117, 105, 99, 101>>,
    <<104, 111, 110, 101, 121>>, <<121, 111, 103, 104, 117, 114, 116>>>>

\* egg
EggWords == <<<<101, 103, 103>>>>

\* C18: determineUnit gives head for category livestock and bird for
\* category poultry whatever the name contains; otherwise litre when the
\* name has a liquid keyword (milk, oil, juice, honey, yoghurt), else tray
\* when it has egg, else piece when it has a piece-counted keyword, else kg.
C18_UnitRule ==
  \A c \in Created :
    LET name == toLowerCase(c.name)
    IN c.unit = IF c.category = "livestock" THEN "head"
                ELSE IF c.category = "poultry" THEN "bird"
                ELSE IF Matches(name, LiquidWords) THEN "litre"
                ELSE IF Matches(name, EggWords) THEN "tray"
                ELSE IF Matches(name, kw_piece) THEN "piece"
                ELSE "kg"

\* A livestock crop whose name has a liquid keyword got head, and a crop
\* whose name has both a liquid keyword and egg got litre.
C18_Witness ==
  /\ \E c \in Created :
       /\ c.category = "livestock" /\ Matches(toLowerCase(c.name), LiquidWords)
       /\ c.unit = "head"
  /\ \E c \in Created :
       /\ Matches(toLowerCase(c.name), LiquidWords) /\ Matches(toLowerCase(c.name), EggWords)
       /\ c.unit = "litre"

\* C19: every price entry the engine has created, after any sequence of
\* batches and for every input file, has a price strictly greater than 0.
C19_PositivePrices ==
  \A e \in price_entries : e.source = "kamis" => e.price > 0

\* The price entries p's transaction writes in this step.
NewEntries(p) == tx'[p].price_entries \ tx[p].price_entries

\* In one step of p's transaction on a row: a row without a market name
\* writes no market, and its price entry has no market; the price entry of
\* a row with a market name refers to a market of that name in the region
\* the row resolved to.
C20_Step ==
  \A p \in Procs :
    (tx[p].state = "open" /\ proc[p].pc \notin {"idle", "commit", "okLog", "failLog"}) =>
      /\ \A e \in NewEntries(p) : e.region_id = proc[p].regionId
      /\ IF marketName(rawRow(p)) = <<>>
         THEN /\ tx'[p].markets \subseteq tx[p].markets
              /\ \A e \in NewEntries(p) : e.market_id = NullId
         ELSE \A e \in NewEntries(p) :
                \E m \in VisMarkets(p) :
                  /\ m.id = e.market_id /\ m.region_id = e.region_id
                  /\ toLowerCase(m.name) = toLowerCase(marketName(rawRow(p)))

\* C20: a valid row whose market name is empty after trimming creates no
\* market and yields a price entry without a market; a valid row with a
\* market name yields a price entry whose market_id refers to a market that
\* belongs to the region the row resolved to.
C20_MarketOptional == [][C20_Step]_vars

\* Committed: a price entry with a market the batch created in the entry's
\* region, and a price entry without a market from a row whose market cell
\* is blank.
C20_Witness ==
  /\ \E e \in price_entries, m \in markets :
       m.id = e.market_id /\ m.region_id = e.region_id /\ m.run = e.run /\ e.run > 0
  /\ \E p \in Procs : \E j \in Ended(p) :
       /\ Committed(p) /\ rowLog[p][j].counter = "inserted"
       /\ Get(proc[p].rows[j], kMarket) # <<>> /\ marketName(proc[p].rows[j]) = <<>>
       /\ CommittedFor(p, j) # {} /\ rowLog[p][j].marketId = NullId

\* C21: market identity is scoped to its region.  Among sequential batches
\* no two Market rows share a region_id and a name ignoring case; a row's
\* market is a row of the row's own region that bears the row's market name;
\* and two rows of a batch that give one market name under two different
\* regions resolve to two different Market rows.
C21_MarketScopedToRegion ==
  /\ \A m1, m2 \in AllMarkets :
       (m1.region_id = m2.region_id /\ toLowerCase(m1.name) = toLowerCase(m2.name)) => m1 = m2
  /\ \A p \in Procs : \A i \in Ended(p) :
       LET ri == rowLog[p][i]
       IN ri.marketId # NullId =>
            /\ (tx[p].state = "open" \/ Committed(p)) =>
                 \E m \in VisMarkets(p) :
                   /\ m.id = ri.marketId /\ m.region_id = ri.regionId
                   /\ toLowerCase(m.name) = toLowerCase(marketName(proc[p].rows[i]))
            /\ \A j \in Ended(p) :
                 LET rj == rowLog[p][j]
                 IN (/\ rj.marketId # NullId /\ rj.regionId # ri.regionId
                     /\ toLowerCase(marketName(proc[p].rows[j]))
                          = toLowerCase(marketName(proc[p].rows[i])))
                    => rj.marketId # ri.marketId

\* A committed store in which one market name stands under two regions, from
\* a batch whose rows named it under both.
C21_Witness ==
  /\ \E m1, m2 \in markets : m1.region_id # m2.region_id /\ m1.name = m2.name
  /\ \E i, j \in Ended("admin") :
       /\ rowLog["admin"][i].marketId # NullId /\ rowLog["admin"][j].marketId # NullId
       /\ rowLog["admin"][i].regionId # rowLog["admin"][j].regionId
       /\ marketName(proc["admin"].rows[i]) = marketName(proc["admin"].rows[j])

\* In one step: every Crop, Region, Market and PriceEntry row of the
\* committed store is still there, with the same field values, and no row of
\* the same id and other values has appeared.
C22_Step ==
  /\ crops \subseteq crops' /\ regions \subseteq regions'
  /\ markets \subseteq markets' /\ price_entries \subseteq price_entries'
  /\ \A x \in crops : \A y \in crops' : y.id = x.id => y = x
  /\ \A x \in regions : \A y \in regions' : y.id = x.id => y = x
  /\ \A x \in markets : \A y \in markets' : y.id = x.id => y = x
  /\ \A x \in price_entries : \A y \in price_entries' : y.id = x.id => y = x

\* C22: the engine only adds rows.  Every Crop, Region, Market and
\* PriceEntry row that exists before a step of a batch exists unchanged after
\* it, whether the batch commits, is rolled back or times out; the tables
\* after a batch are supersets of the tables before it.
C22_OnlyAdds == [][C22_Step]_vars

\* A batch has committed price entries into a store that held the price
\* entries of an earlier batch, and they are all there.
C22_Witness ==
  /\ Committed("admin") /\ CommittedBy("admin") # {}
  /\ \E e \in price_entries : e.run > 0 /\ e.run < proc["admin"].run

\* The reference rows p's batch has created.
CreatedCrops(p) == {c \in VisCrops(p) : c.run = proc[p].run}

CreatedRegions(p) == {g \in VisRegions(p) : g.run = proc[p].run}

CreatedMarkets(p) == {m \in VisMarkets(p) : m.run = proc[p].run}

\* C23: within one batch the rows are processed in file order and a
\* reference row created for an earlier row is visible to every later row.
\* The rows that have ended are the first rows of the file; a later row that
\* names the crop, region or market (in the same region) of an earlier row,
\* ignoring case, resolves to the same id, unless a storage fault stopped it
\* before; and the batch creates at most one Crop per crop name, one Region
\* per region name and one Market per market name and region.
C23_EarlierRowsVisible ==
  \A p \in Procs :
    /\ proc[p].pc \notin {"idle", "okLog", "failLog"} =>
         DOMAIN rowLog[p] = 1..(proc[p].i - 1)
    /\ \A i, j \in Ended(p) :
         LET ri == rowLog[p][i]
             rj == rowLog[p][j]
             a == proc[p].rows[i]
             b == proc[p].rows[j]
         IN (i < j /\ rj.cause # "fault") =>
              /\ (/\ ri.cropId # NullId /\ rj.cause # "aborted" /\ ~RowRejected(b)
                  /\ toLowerCase(cropName(a)) = toLowerCase(cropName(b)))
                 => rj.cropId = ri.cropId
              /\ (/\ ri.regionId # NullId /\ rj.cropId # NullId
                  /\ toLowerCase(regionName(a)) = toLowerCase(regionName(b)))
                 => rj.regionId = ri.regionId
              /\ (/\ ri.marketId # NullId /\ rj.regionId = ri.regionId
                  /\ toLowerCase(marketName(a)) = toLowerCase(marketName(b)))
                 => rj.marketId = ri.marketId
    /\ \A c1, c2 \in CreatedCrops(p) :
         toLowerCase(c1.name) = toLowerCase(c2.name) => c1 = c2
    /\ \A g1, g2 \in CreatedRegions(p) :
         toLowerCase(g1.name) = toLowerCase(g2.name) => g1 = g2
    /\ \A m1, m2 \in CreatedMarkets(p) :
         (toLowerCase(m1.name) = toLowerCase(m2.name) /\ m1.region_id = m2.region_id)
         => m1 = m2

\* A batch on an empty store has ended two rows that name one crop, one
\* region and one market in different letter case: the first row created
\* all three and the second resolved to them.
C23_Witness ==
  /\ Cardinality(CreatedCrops("admin")) = 1 /\ Cardinality(CreatedRegions("admin")) = 1
  /\ Cardinality(CreatedMarkets("admin")) = 1
  /\ \E i, j \in Ended("admin") :
       /\ i < j
       /\ cropName(proc["admin"].rows[i]) # cropName(proc["admin"].rows[j])
       /\ regionName(proc["admin"].rows[i]) # regionName(proc["admin"].rows[j])
       /\ rowLog["admin"][j].cropId = rowLog["admin"][i].cropId
       /\ rowLog["admin"][j].regionId = rowLog["admin"][i].regionId
       /\ rowLog["admin"][j].marketId = rowLog["admin"][i].marketId
       /\ rowLog["admin"][i].marketId # NullId

\* C24: a row whose region name matches no Region ignoring case gets
\* exactly one new active Region, whose code is the name upper-cased with
\* its whitespace replaced by underscores, and goes on with that Region's
\* id.  Stated of every row that resolved its crop and met no storage
\* fault: it resolved a region, and a region its batch created has the
\* row's name and the derived code.
C24_RegionCreated ==
  \A p \in Procs : \A j \in Ended(p) :
    LET rj == rowLog[p][j]
        name == regionName(proc[p].rows[j])
    IN (rj.cropId # NullId /\ rj.cause # "fault") =>
         /\ rj.regionId # NullId
         /\ \A g \in CreatedRegions(p) :
              g.id = rj.regionId =>
                /\ toLowerCase(g.name) = toLowerCase(name)
                /\ g.code = ReplaceSpaces(toUpperCase(g.name))
                /\ g.is_active

\* How many of p's ended rows have the given counter.
Counted(p, counter) == Cardinality({j \in DOMAIN rowLog[p] : rowLog[p][j].counter = counter})

\* C25: whenever processFile returns an aggregate, inserted + skipped +
\* errors = total_rows, total_rows is the number of parsed rows, and every
\* row has contributed to exactly one of the three counters.
C25_CountersPartitionRows ==
  \A p \in Procs :
    proc[p].result # NoResult =>
      LET res == proc[p].result
      IN /\ res.inserted + res.skipped + res.errors = res.total_rows
         /\ res.total_rows = Len(proc[p].rows)
         /\ DOMAIN rowLog[p] = DOMAIN proc[p].rows
         /\ res.inserted = Counted(p, "inserted")
         /\ res.skipped = Counted(p, "skipped")
         /\ res.errors = Counted(p, "errors")

\* A returned aggregate of several rows with more than one counter positive.
C25_Witness ==
  /\ proc["admin"].result # NoResult
  /\ proc["admin"].result.total_rows > 1
  /\ proc["admin"].result.inserted > 0 /\ proc["admin"].result.errors > 0

\* C26: whenever processFile returns an aggregate, the number of
\* PriceEntry rows the batch added to the committed store is the returned
\* inserted count, also in a batch where a row's storage fault was caught
\* and counted in errors.
C26_InsertedIsCommitted ==
  \A p \in Procs :
    proc[p].result # NoResult => Cardinality(CommittedBy(p)) = proc[p].result.inserted

\* The first row of p's batch that resolved to the reference row of the
\* given id, crop, region or market according to field: its creator, when
\* the batch created the reference row.
FirstUser(p, field, id) ==
  LET users == {j \in Ended(p) : rowLog[p][j][field] = id}
  IN IF users = {} THEN 0 ELSE CHOOSE j \in users : \A k \in users : j <= k

\* Was the committed reference row of the given id created by a row of p's
\* batch that was counted in inserted?
ByInsertedRow(p, field, id) ==
  /\ FirstUser(p, field, id) # 0
  /\ rowLog[p][FirstUser(p, field, id)].counter = "inserted"

\* C27: a row counted in skipped or in errors leaves the reference tables
\* as they were before it; only a row counted in inserted can have caused a
\* Crop, Region or Market row to be created.  Stated of the batches that
\* have committed: every reference row the batch added to the store was
\* created by a row that was counted in inserted.
C27_OnlyInsertedRowsCreate ==
  \A p \in Procs :
    Committed(p) =>
      /\ \A c \in crops : c.run = proc[p].run => ByInsertedRow(p, "cropId", c.id)
      /\ \A g \in regions : g.run = proc[p].run => ByInsertedRow(p, "regionId", g.id)
      /\ \A m \in markets : m.run = proc[p].run => ByInsertedRow(p, "marketId", m.id)

\* The entries of any source the dedup query of p's current row is about:
\* same crop, region and market (or none), dated the row's calendar day.
SameDayEntries(p) ==
  {e \in VisEntries(p) :
     /\ e.crop_id = proc[p].cropId /\ e.region_id = proc[p].regionId
     /\ e.market_id = proc[p].marketId
     /\ e.entry_date = DateOf(proc[p].entryDate)}

\* In the step that takes the dedup decision for a row with a valid date:
\* when an entry of the row's fact and day exists the row ends counted in
\* skipped, and the row goes on to the insert only when none exists.
C28_Step ==
  \A p \in Procs :
    (proc[p].pc = "dupFind" /\ proc[p].entryDate # InvalidDate /\ proc'[p] # proc[p]
     /\ proc'[p].error # "Transaction already closed") =>
      /\ SameDayEntries(p) # {} =>
           /\ Len(rowLog'[p]) = Len(rowLog[p]) + 1
           /\ rowLog'[p][Len(rowLog'[p])].counter = "skipped"
           /\ tx'[p] = tx[p]
      /\ proc'[p].pc = "entryCreate" => SameDayEntries(p) = {}

\* C28: the dedup check does not look at the source tag.  A valid row
\* is counted in skipped whenever a PriceEntry of any source, manual entries
\* made through createPriceEntry included, exists for the same crop, region
\* and market within the row's calendar day, and is inserted only when none
\* exists.
C28_DedupIgnoresSource == [][C28_Step]_vars

\* A row was skipped as a duplicate when the only entry of its fact and day
\* was a manual one.
C28_Witness ==
  \E j \in Ended("admin") :
    /\ rowLog["admin"][j].cause = "duplicate"
    /\ \E e \in price_entries :
         /\ e.source = "farmer"
         /\ e.crop_id = rowLog["admin"][j].cropId /\ e.region_id = rowLog["admin"][j].regionId
         /\ e.market_id = rowLog["admin"][j].marketId
         /\ rowLog["admin"][j].marketId # NullId
    /\ \A e \in price_entries : e.source # "kamis"

\* C29: every PriceEntry the engine creates has source = kamis,
\* is_verified = true and unit = kg, whatever the unit of the entry's crop.
C29_EngineEntryTags ==
  \A e \in AllEntries :
    e.run > 0 => e.source = "kamis" /\ e.is_verified /\ e.unit = "kg"

\* The store holds an engine price entry in kg of a crop whose unit is
\* not kg.
C29_Witness ==
  \E e \in price_entries : \E c \in crops :
    e.run > 0 /\ e.crop_id = c.id /\ c.unit # "kg" /\ e.unit = "kg"

\* The step is one of p's upload: p is inside an upload, or ends one, after
\* it.
UploadStep(p) ==
  /\ proc'[p].kind = "upload"
  /\ <<proc[p], tx[p], rowLog[p]>> # <<proc'[p], tx'[p], rowLog'[p]>>

\* The step is the call of triggerSync by p.
SyncCall(p) == proc[p].pc = "idle" /\ proc'[p].kind = "sync" /\ proc'[p].pc # "idle"

\* In one step: a step of an upload leaves the run log, and what
\* getKamisSyncStatus returns, as they were; a call of triggerSync adds
\* exactly one SyncRun; and the run log grows in no other step.
C30_Step ==
  /\ \A p \in Procs :
       UploadStep(p) =>
         /\ kamis_sync_logs' = kamis_sync_logs
         /\ getKamisSyncStatus(FALSE)' = getKamisSyncStatus(FALSE)
  /\ \A p \in Procs :
       SyncCall(p) =>
         /\ Len(kamis_sync_logs') = Len(kamis_sync_logs) + 1
         /\ SubSeq(kamis_sync_logs', 1, Len(kamis_sync_logs)) = kamis_sync_logs
         /\ proc'[p].syncId = Len(kamis_sync_logs')
  /\ Len(kamis_sync_logs') # Len(kamis_sync_logs) => \E p \in Procs : SyncCall(p)
  /\ kamis_sync_logs' # kamis_sync_logs => \E p \in Procs : proc[p].kind = "sync" \/ SyncCall(p)

\* C30: only triggerSync touches the run log.  An upload creates and
\* updates no SyncRun, so getSyncStatus returns the same before, during and
\* after an upload batch, and each triggerSync invocation creates exactly
\* one SyncRun.
C30_OnlySyncTouchesLog == [][C30_Step]_vars

\* An upload has returned its aggregate after a sync completed, and the run
\* log holds the one SyncRun of that sync.
C30_Witness ==
  /\ proc["admin"].kind = "upload" /\ proc["admin"].result # NoResult
  /\ rowLog["admin"] # <<>>
  /\ Len(kamis_sync_logs) = 1 /\ kamis_sync_logs[1].status = "completed"

====
